---- MODULE Spec2Model ----
(***************************************************************************)
(* State-machine model of the madness-engine bracket core: bracket         *)
(* construction (bracket-builder), per-run bracket state (bracket-state),  *)
(* the Monte Carlo propagator (bracket-propagator) and the live-state      *)
(* blender (live-state-blender) as driven by the real-time loop.           *)
(*                                                                         *)
(* Encoding of JavaScript values:                                          *)
(*   - an optional value (team1Id?, winnerId?, nextSlotId?, liveGame?,     *)
(*     baseSeed?) is a sequence: <<>> is undefined, anything else is set;  *)
(*   - a team id is <<region, seed>>, a slot id is the tuple of the        *)
(*     pieces the template string `${region}-r${n}-g${g}` is built of;     *)
(*   - a 32-bit word is <<hi, lo>>, two 16-bit halves (TLC integers are    *)
(*     32-bit signed, the generator works modulo 2^32);                    *)
(*   - a floating-point probability or logit is a fixed-point integer in   *)
(*     units of 1/FX.                                                      *)
(***************************************************************************)
EXTENDS Integers, Sequences, FiniteSets, TLC

\* ------------------------------------------------------------------------
\* core/constants.ts
\* ------------------------------------------------------------------------

REGIONS == <<"east", "west", "south", "midwest">>

ROUNDS_IN_ORDER ==
  <<"round-of-64", "round-of-32", "sweet-sixteen", "elite-eight", "final-four", "championship">>

SEED_MATCHUPS ==
  << <<1, 16>>, <<8, 9>>, <<5, 12>>, <<4, 13>>, <<6, 11>>, <<3, 14>>, <<7, 10>>, <<2, 15>> >>

TEAMS_PER_REGION == 16

\* The undefined value of an optional field.
Undefined == <<>>

\* JavaScript truthiness of an optional id (`!x` is true for undefined).
IsSet(x) == x # Undefined

\* Array.prototype.push
Push(s, e) == Append(s, e)

\* Body(value), the value being computed once: a `const` of the code, where
\* a LET would compute it again at each use.
With(value, Body(_)) == CHOOSE result \in {Body(v) : v \in {value}} : TRUE

\* ------------------------------------------------------------------------
\* Rosters (the Team[] input).  A team carries the fields the bracket core
\* reads: id, seed, region and the metric the probability model weighs.
\* ------------------------------------------------------------------------

\* tests/engine/bracket-propagator.test.ts generateMockTeams: id
\* `${region}-${seed}`, quality = (17 - seed) / 16, adjOffensiveEfficiency =
\* 95 + quality * 30 (kept here in sixteenths: 1520 + 30 * (17 - seed)).
MockTeam(region, seed) ==
  [id |-> <<region, seed>>, seed |-> seed, region |-> region,
   adjOE16 |-> 1520 + 30 * (17 - seed)]

generateMockTeams ==
  [i \in 1..(Len(REGIONS) * TEAMS_PER_REGION) |->
     MockTeam(REGIONS[((i - 1) \div TEAMS_PER_REGION) + 1], ((i - 1) % TEAMS_PER_REGION) + 1)]

\* ------------------------------------------------------------------------
\* bracket/bracket-builder.ts
\* ------------------------------------------------------------------------

\* The pieces `r${n}` and `g${n}` of a slot id.
RoundTok(n) == <<"r1", "r2", "r3", "r4">>[n]
GameTok(n) == <<"g1", "g2", "g3", "g4", "g5", "g6", "g7", "g8">>[n]

\* `${region}-r${roundNum}-g${gameNum}`
RegionalSlotId(region, roundNum, gameNum) == <<region, RoundTok(roundNum), GameTok(gameNum)>>

ff1Id == <<"ff", "g1">>
ff2Id == <<"ff", "g2">>
champId == <<"championship">>

\* A BracketSlot object literal; fields the literal leaves out are undefined.
Slot(slotId, round, region, team1Id, team2Id, nextSlotId) ==
  [slotId |-> slotId, round |-> round, region |-> region,
   team1Id |-> team1Id, team2Id |-> team2Id, winnerId |-> Undefined,
   liveGame |-> Undefined, nextSlotId |-> nextSlotId]

\* teamsByRegionAndSeed.get(`${region}-${seed}`)?.id : the map is filled in
\* roster order, so the last team with that region and seed is the one kept.
TeamIdAt(teams, region, seed) ==
  LET hits == {i \in 1..Len(teams) : teams[i].region = region /\ teams[i].seed = seed}
  IN IF hits = {} THEN Undefined
     ELSE teams[CHOOSE i \in hits : \A j \in hits : j <= i].id

\* buildRegion: the 15 slots of one region, pushed in the order round 1
\* games 1..8, round 2 games 1..4, round 3 games 1..2, round 4 game 1.
buildRegion(region, teams, slots) ==
  LET r1 == [g \in 1..8 |->
               Slot(RegionalSlotId(region, 1, g), "round-of-64", region,
                    TeamIdAt(teams, region, SEED_MATCHUPS[g][1]),
                    TeamIdAt(teams, region, SEED_MATCHUPS[g][2]),
                    RegionalSlotId(region, 2, ((g - 1) \div 2) + 1))]
      r2 == [g \in 1..4 |->
               Slot(RegionalSlotId(region, 2, g), "round-of-32", region,
                    Undefined, Undefined,
                    RegionalSlotId(region, 3, ((g - 1) \div 2) + 1))]
      r3 == [g \in 1..2 |->
               Slot(RegionalSlotId(region, 3, g), "sweet-sixteen", region,
                    Undefined, Undefined, RegionalSlotId(region, 4, 1))]
      r4 == << Slot(RegionalSlotId(region, 4, 1), "elite-eight", region,
                    Undefined, Undefined, Undefined) >>
  IN slots \o r1 \o r2 \o r3 \o r4

\* Faulty variants of updateSlotNextId the bracket properties must tell from
\* it: one forgets the assignment, one wires a region to the other semifinal.
updateSlotNextIdLost(slots, slotId, nextSlotId) == slots

updateSlotNextIdCrossed(slots, slotId, nextSlotId) ==
  LET hits == {i \in 1..Len(slots) : slots[i].slotId = slotId}
  IN IF hits = {} THEN slots
     ELSE [slots EXCEPT ![CHOOSE k \in hits : \A j \in hits : k <= j].nextSlotId =
             IF nextSlotId = <<"ff", "g1">> THEN <<"ff", "g2">> ELSE <<"ff", "g1">>]

\* updateSlotNextId: slots.find takes the first slot with that id.
updateSlotNextId(slots, slotId, nextSlotId) ==
  LET hits == {i \in 1..Len(slots) : slots[i].slotId = slotId}
  IN IF hits = {} THEN slots
     ELSE LET i == CHOOSE k \in hits : \A j \in hits : k <= j
          IN [slots EXCEPT ![i].nextSlotId = nextSlotId]

RECURSIVE BuildRegions(_, _, _)
BuildRegions(teams, slots, k) ==
  IF k > Len(REGIONS) THEN slots
  ELSE BuildRegions(teams, buildRegion(REGIONS[k], teams, slots), k + 1)

\* buildBracket: the slot list of the returned SerializedBracket
\* (tournamentType and year are passed through and read by nothing here).
buildBracket(teams) ==
  LET regional == BuildRegions(teams, <<>>, 1)
      e1 == updateSlotNextId(regional, RegionalSlotId("east", 4, 1), ff1Id)
      e2 == updateSlotNextId(e1, RegionalSlotId("west", 4, 1), ff1Id)
      e3 == updateSlotNextId(e2, RegionalSlotId("south", 4, 1), ff2Id)
      e4 == updateSlotNextId(e3, RegionalSlotId("midwest", 4, 1), ff2Id)
  IN Push(Push(Push(e4,
       Slot(ff1Id, "final-four", "final-four", Undefined, Undefined, champId)),
       Slot(ff2Id, "final-four", "final-four", Undefined, Undefined, champId)),
       Slot(champId, "championship", "final-four", Undefined, Undefined, Undefined))

\* ------------------------------------------------------------------------
\* bracket/bracket-state.ts : BracketSimState.  `slots` is the list of slot
\* copies in bracket order (the order of slotsByRound); the slotId -> slot
\* Map keeps, for an id, the copy set last.
\* ------------------------------------------------------------------------

\* A faulty variant of BracketAfterWrites: the constructor stored the
\* bracket's own slot objects, so a write to the state is a write to them.
BracketAfterWritesShared(bracketSlots, stateSlots) == stateSlots

\* The slots of the bracket the state was constructed from, after writes
\* (setWinner) have left the state's slots as stateSlots: the constructor
\* stored a copy of each slot (`const copy = { ...slot }`), so the bracket's
\* slot objects are not the ones written to.
BracketAfterWrites(bracketSlots, stateSlots) == bracketSlots

\* new BracketSimState(bracket): `{ ...slot }` copies every field of every slot.
NewBracketSimState(bracketSlots) == [i \in 1..Len(bracketSlots) |-> bracketSlots[i]]

\* this.slots.get(slotId): the index of the slot, 0 when the Map has none.
SlotIndex(slots, slotId) ==
  LET hits == {i \in 1..Len(slots) : slots[i].slotId = slotId}
  IN IF hits = {} THEN 0 ELSE CHOOSE i \in hits : \A j \in hits : j <= i

\* A faulty variant of setWinner: the winner always lands in team1Id of the
\* next slot.
setWinnerFirstSide(slots, slotId, winnerId) ==
  LET i == SlotIndex(slots, slotId)
      won == [slots EXCEPT ![i].winnerId = winnerId]
      n == IF IsSet(slots[i].nextSlotId) THEN SlotIndex(slots, slots[i].nextSlotId) ELSE 0
  IN IF n = 0 THEN won ELSE [won EXCEPT ![n].team1Id = winnerId]

\* BracketSimState.setWinner (the slot is known: the propagator passes the id
\* of a slot it read from the state).
setWinner(slots, slotId, winnerId) ==
  LET i == SlotIndex(slots, slotId)
      won == [slots EXCEPT ![i].winnerId = winnerId]
      n == IF IsSet(slots[i].nextSlotId) THEN SlotIndex(slots, slots[i].nextSlotId) ELSE 0
  IN IF n = 0 THEN won
     ELSE IF ~IsSet(won[n].team1Id)
          THEN [won EXCEPT ![n].team1Id = winnerId]
          ELSE [won EXCEPT ![n].team2Id = winnerId]

\* The filter of getReadyGamesForRound / getReadyGames.
IsReady(s) == IsSet(s.team1Id) /\ IsSet(s.team2Id) /\ ~IsSet(s.winnerId)

RECURSIVE FilterReady(_, _, _)
FilterReady(slots, round, i) ==
  IF i > Len(slots) THEN <<>>
  ELSE IF slots[i].round = round /\ IsReady(slots[i])
       THEN <<i>> \o FilterReady(slots, round, i + 1)
       ELSE FilterReady(slots, round, i + 1)

\* BracketSimState.getReadyGamesForRound: the indices of the ready slots of
\* the round, in bracket order.
getReadyGamesForRound(slots, round) == FilterReady(slots, round, 1)

\* BracketSimState.getChampion
getChampion(slots) ==
  LET i == SlotIndex(slots, champId)
  IN IF i = 0 THEN Undefined ELSE slots[i].winnerId

\* ------------------------------------------------------------------------
\* engine/bracket-propagator.ts : createRng, the seeded generator.
\* ------------------------------------------------------------------------

HALF == 2 ^ 16

RECURSIVE XorBits(_, _, _)
XorBits(a, b, n) ==
  IF n = 0 THEN 0
  ELSE ((a + b) % 2) + 2 * XorBits(a \div 2, b \div 2, n - 1)

\* a ^ b on 32-bit words
Xor32(a, b) ==
  With(<<a, b>>, LAMBDA w :
    <<XorBits(w[1][1], w[2][1], 16), XorBits(w[1][2], w[2][2], 16)>>)

\* (w * c + a) | 0 for the constants the generator multiplies by
MulAdd32(w, c, a) ==
  LET t0 == w[2] * c[2] + a[2]
      t1 == (t0 \div HALF) + w[2] * c[1] + w[1] * c[2] + a[1]
  IN <<t1 % HALF, t0 % HALF>>

Pow2(k) == IF k = 0 THEN 1 ELSE 2 ^ k

\* (w << k) | 0, 0 < k < 16
Shl32(w, k) ==
  LET lo == w[2] * Pow2(k)
  IN <<((w[1] * Pow2(k)) + (lo \div HALF)) % HALF, lo % HALF>>

\* w >>> k, 16 <= k < 32
Shr32(w, k) == <<0, w[1] \div Pow2(k - 16)>>

\* (w << k) | (w >>> (32 - k)): the two operands share no bit
Rotl32(w, k) ==
  LET a == Shl32(w, k)
      b == Shr32(w, 32 - k)
  IN <<a[1] + b[1], a[2] + b[2]>>

\* seed | 0 for a seed in 0 .. 2^31 - 1
ToInt32(seed) == <<(seed \div HALF) % HALF, seed % HALF>>

LCG_MUL == <<25, 26125>>       \* 1664525
LCG_ADD == <<15470, 62303>>    \* 1013904223
Zero32 == <<0, 0>>

\* createRng(seed): the initial s0..s3
createRng(seed) ==
  LET s0 == ToInt32(seed)
      s1 == MulAdd32(s0, LCG_MUL, LCG_ADD)
      s2 == MulAdd32(s1, LCG_MUL, LCG_ADD)
      s3 == MulAdd32(s2, LCG_MUL, LCG_ADD)
  IN <<s0, s1, s2, s3>>

\* One call of the closure createRng returns: the 32-bit numerator r of the
\* uniform r / 4294967296, and the generator's next state.
RngNext(s) ==
  With(<<Xor32(s[3], s[1]), Xor32(s[4], s[2])>>, LAMBDA x :
    LET t == Shl32(s[2], 9)
        r == MulAdd32(Rotl32(MulAdd32(s[2], <<0, 5>>, Zero32), 7), <<0, 9>>, Zero32)
        s2a == x[1]
        s3a == x[2]
        s1a == Xor32(s[2], s2a)
        s0a == Xor32(s[1], s3a)
    IN [value |-> r, state |-> <<s0a, s1a, Xor32(s2a, t), Rotl32(s3a, 11)>>])

\* ------------------------------------------------------------------------
\* Fixed-point arithmetic.  A probability, logit or time fraction is an
\* integer count of 1/FX; Math.exp, Math.log, Math.sqrt and Math.cos are
\* evaluated by the integer approximations below (monotone where the
\* function is, and with the same symmetries).
\* ------------------------------------------------------------------------

FX == 2 ^ 10

Abs(x) == IF x < 0 THEN -x ELSE x
Min(a, b) == IF a < b THEN a ELSE b
Max(a, b) == IF a > b THEN a ELSE b

\* sigmoid(x) = 1 / (1 + Math.exp(-x)), as 1/2 + x / (2 (1 + |x|))
sigmoid(x) == (FX \div 2) + ((x * FX) \div (2 * (FX + Abs(x))))

\* Math.log(p / (1 - p + 1e-10) + 1e-10), the inverse of sigmoid above
logit(p) == ((2 * p - FX) * FX) \div Max(1, FX - Abs(2 * p - FX))

RECURSIVE IsqrtIter(_, _, _)
IsqrtIter(n, lo, hi) ==
  With([n |-> n, lo |-> lo, hi |-> hi, mid |-> (lo + hi + 1) \div 2], LAMBDA a :
    IF a.lo >= a.hi THEN a.lo
    ELSE IF a.mid * a.mid <= a.n THEN IsqrtIter(a.n, a.mid, a.hi)
         ELSE IsqrtIter(a.n, a.lo, a.mid - 1))

\* Math.sqrt of a fixed-point value
sqrtFx(x) == IsqrtIter(x * FX, 0, 2 ^ 15)

\* Math.max(lo, Math.min(hi, p))
Clamp(lo, hi, p) == Max(lo, Min(hi, p))

\* ------------------------------------------------------------------------
\* engine/probability-model.ts
\* ------------------------------------------------------------------------

\* A faulty variant of computeBaseWinProbability: the logit is built from
\* team1's metric alone instead of the differential.
computeBaseWinProbabilityOneSided(team1, team2, weights) ==
  sigmoid((weights.adjOffensiveEfficiency * (team1.adjOE16 - 1520) * FX) \div (100 * 16 * 8 * 4))

\* computeBaseWinProbability for weights whose only non-zero key is
\* adjOffensiveEfficiency (weight in hundredths) and rosters whose other
\* metrics do not differ: logit = weight * (v1 - v2) / 8.0, then
\* sigmoid(logit * 0.25).  v1 - v2 is in sixteenths.
computeBaseWinProbability(team1, team2, weights) ==
  LET w == weights.adjOffensiveEfficiency
  IN IF w = 0 THEN sigmoid(0)
     ELSE sigmoid((w * (team1.adjOE16 - team2.adjOE16) * FX) \div (100 * 16 * 8 * 4))

\* A faulty variant of applySeedGapAdjustment: without the early return.
applySeedGapAdjustmentBlending(baseProbability, team1Seed, team2Seed, seedGapSensitivity) ==
  LET seedDiff == team2Seed - team1Seed
      seedImpliedProb == sigmoid((seedDiff * 18 * FX) \div 100)
      pullStrength == (15 * seedGapSensitivity * FX) \div (100 * 100)
  IN (baseProbability * (FX - pullStrength) + seedImpliedProb * pullStrength) \div FX

\* applySeedGapAdjustment (seedGapSensitivity in hundredths)
applySeedGapAdjustment(baseProbability, team1Seed, team2Seed, seedGapSensitivity) ==
  IF seedGapSensitivity = 0 \/ team1Seed = team2Seed THEN baseProbability
  ELSE LET seedDiff == team2Seed - team1Seed
           seedImpliedProb == sigmoid((seedDiff * 18 * FX) \div 100)
           pullStrength == (15 * seedGapSensitivity * FX) \div (100 * 100)
       IN (baseProbability * (FX - pullStrength) + seedImpliedProb * pullStrength) \div FX

\* normalCDF(x), as sigmoid(1.702 x)
normalCDF(x) == sigmoid((x * 1702) \div 1000)

GAME_LENGTH_SECONDS == 40 * 60

\* computeLiveAdjustedProbability with gamma = 1 (LIVE_STATE_GAMMA=1), so
\* that alpha = Math.pow(elapsedFraction, gamma) is the elapsed fraction.
computeLiveAdjustedProbability(pregameProbability, liveState, homeTeamIsTeam1) ==
  LET team1Score == IF homeTeamIsTeam1 THEN liveState.homeScore ELSE liveState.awayScore
      team2Score == IF homeTeamIsTeam1 THEN liveState.awayScore ELSE liveState.homeScore
      totalTime == IF liveState.period <= 2 THEN GAME_LENGTH_SECONDS
                   ELSE GAME_LENGTH_SECONDS + (liveState.period - 2) * 300
      elapsed == totalTime - liveState.timeRemainingSeconds
      alpha == Clamp(0, FX, (elapsed * FX) \div totalTime)
      remainingPossessions ==
        Max(FX, (liveState.timeRemainingSeconds * 70 * FX) \div GAME_LENGTH_SECONDS)
      expectedStdDev == (sqrtFx(remainingPossessions) * 5) \div 2
      liveProb == normalCDF(((team1Score - team2Score) * FX * FX) \div expectedStdDev)
  IN IF liveState.status = "pre-game" THEN pregameProbability
     ELSE IF liveState.status = "final"
          THEN (IF team1Score > team2Score THEN FX
                ELSE IF team1Score < team2Score THEN 0 ELSE FX \div 2)
          ELSE (alpha * liveProb + (FX - alpha) * pregameProbability) \div FX

\* Is the uniform r / 2^32 equal to 0 ?
IsZero32(r) == r[1] = 0 /\ r[2] = 0

\* `while (u === 0) u = rng()` : the first non-zero draw and the state after it.
RECURSIVE DrawNonZero(_)
DrawNonZero(s) ==
  With(RngNext(s), LAMBDA d :
    IF IsZero32(d.value) THEN DrawNonZero(d.state) ELSE d)

\* floor(log2(r)) of a non-zero 32-bit word
RECURSIVE Log2(_)
Log2(n) == IF n <= 1 THEN 0 ELSE 1 + Log2(n \div 2)
BitLength32(r) == IF r[1] > 0 THEN 17 + Log2(r[1]) ELSE 1 + Log2(r[2])

\* gaussianRandom (Box-Muller): Math.sqrt(-2 ln u) * Math.cos(2 pi v), with
\* -ln u taken as (leading zero bits of u + 1/2) ln 2 and the cosine as the
\* triangle wave through its values at 0, 1/2 and 1.
gaussianRandom(s) ==
  With(DrawNonZero(s), LAMBDA u :
  With(DrawNonZero(u.state), LAMBDA v :
    LET k == 32 - BitLength32(u.value)
        radius == 32 * IsqrtIter(((1386 * k + 693) * FX) \div 1000, 0, 2 ^ 10)
        vfx == v.value[1] \div (HALF \div FX)
        cosine == IF 2 * vfx < FX THEN FX - 4 * vfx ELSE 4 * vfx - 3 * FX
    IN [value |-> (radius * cosine) \div FX, state |-> v.state]))

\* roundVarianceMultipliers[round] ?? 1.0, in hundredths
RoundMult(varianceConfig, round) ==
  IF round \in DOMAIN varianceConfig.roundVarianceMultipliers
  THEN varianceConfig.roundVarianceMultipliers[round] ELSE 100

\* sampleOutcome: TRUE when team1 wins; also the generator state it leaves.
\* rng() < p is r / 2^32 < p / FX, that is floor(r / 2^22) < p.
sampleOutcome(team1WinProb, varianceConfig, round, s) ==
  With(gaussianRandom(s), LAMBDA g :
  With(RngNext(g.state), LAMBDA last :
    LET variance == varianceConfig.baseVariance * RoundMult(varianceConfig, round)
        noise == (g.value * variance * 4) \div (100 * 100)
        noisyProb == sigmoid(logit(team1WinProb) + noise)
        finalProb == ((noisyProb * 100) \div varianceConfig.upsetMultiplier)
                     + ((FX \div 2) * (varianceConfig.upsetMultiplier - 100))
                         \div varianceConfig.upsetMultiplier
    IN [team1Wins |-> (last.value[1] \div (HALF \div FX)) < Clamp(1, FX - 1, finalProb),
        state |-> last.state]))

\* ------------------------------------------------------------------------
\* modes/base-mode.ts, modes/implementations/pure-statistical.ts and the
\* optional per-run hooks of modes/types.ts
\* ------------------------------------------------------------------------

\* DEFAULT_WEIGHTS restricted to the metric rosters here differ in.
DEFAULT_WEIGHTS == [adjOffensiveEfficiency |-> 100]

\* DEFAULT_VARIANCE, numbers in hundredths; roundVarianceMultipliers is {}.
DEFAULT_VARIANCE ==
  [baseVariance |-> 11, upsetMultiplier |-> 100, liveStateWeight |-> 100,
   seedGapSensitivity |-> 100, roundVarianceMultipliers |-> <<>>]

\* PureStatisticalMode: no initializeSimState, no onGameComplete.
PureStatisticalMode ==
  [id |-> "pure-statistical", weights |-> DEFAULT_WEIGHTS, variance |-> DEFAULT_VARIANCE,
   hasSimState |-> FALSE]

\* A mode that opts into per-run state through the two optional hooks of
\* SimulationMode (a fatigue accumulator: games completed per team).
FatigueTrackingMode ==
  [id |-> "fatigue-tracking", weights |-> DEFAULT_WEIGHTS, variance |-> DEFAULT_VARIANCE,
   hasSimState |-> TRUE]

\* f[k] ?? 0 and f[k] = v on a Record<string, number>
Get0(f, k) == IF k \in DOMAIN f THEN f[k] ELSE 0
Put(f, k, v) == [x \in (DOMAIN f) \cup {k} |-> IF x = k THEN v ELSE f[x]]

\* mode.initializeSimState?.() : undefined for a mode without the hook.
initializeSimState(mode) ==
  IF mode.hasSimState THEN <<[gamesCompleted |-> <<>>]>> ELSE Undefined

\* mode.onGameComplete(winner, loser, round, state): mutates the state object.
onGameComplete(mode, winner, loser, round, state) ==
  [gamesCompleted |->
     Put(Put(state.gamesCompleted, winner.id, Get0(state.gamesCompleted, winner.id) + 1),
         loser.id, Get0(Put(state.gamesCompleted, winner.id,
                            Get0(state.gamesCompleted, winner.id) + 1), loser.id) + 1)]

\* BaseSimulationMode.adjustProbability
adjustProbability(mode, baseProbability, team1, team2, context) == baseProbability

\* ------------------------------------------------------------------------
\* engine/bracket-propagator.ts : simulateFullBracket
\* ------------------------------------------------------------------------

RoundSet == {ROUNDS_IN_ORDER[i] : i \in 1..Len(ROUNDS_IN_ORDER)}

\* teamMap.get(id): teamMap is filled in roster order, the last team with an
\* id is the one kept.  <<>> when the roster has none.
teamMapGet(teams, id) ==
  LET hits == {i \in 1..Len(teams) : teams[i].id = id}
  IN IF hits = {} THEN Undefined
     ELSE <<teams[CHOOSE i \in hits : \A j \in hits : j <= i]>>

TeamIds(teams) == {teams[i].id : i \in 1..Len(teams)}

\* "Initialize counts"
InitRoundCounts(teams) == [id \in TeamIds(teams) |-> [r \in RoundSet |-> 0]]
InitChampionshipCounts(teams) == [id \in TeamIds(teams) |-> 0]

\* A faulty variant of PlayGame: it counts whichever team of the game the
\* roster has before it looks at the other one, and plays nothing.
PlayGameCountsFound(st, teams, mode, round, gi) ==
  LET game == st.slots[gi]
      found == {id \in {game.team1Id, game.team2Id} : IsSet(teamMapGet(teams, id))}
  IN [st EXCEPT !.roundCounts =
        [id \in DOMAIN st.roundCounts |->
           IF id \in found THEN [st.roundCounts[id] EXCEPT ![round] = @ + 1]
           ELSE st.roundCounts[id]]]

\* The body of `for (const game of games)` for the ready game at index gi.
\* st holds the locals of the run (state, rng, gamesPlayed) and the
\* accumulators the run updates (roundCounts, modeState).
PlayGame(st, teams, mode, round, gi) ==
  LET game == st.slots[gi]
  IN IF ~IsSet(game.team1Id) \/ ~IsSet(game.team2Id) THEN st
     ELSE
     With(<<teamMapGet(teams, game.team1Id), teamMapGet(teams, game.team2Id)>>, LAMBDA found :
       IF ~IsSet(found[1]) \/ ~IsSet(found[2]) THEN st
       ELSE
       LET team1 == found[1][1]
           team2 == found[2][1]
           rc1 == [st.roundCounts EXCEPT ![team1.id][round] = @ + 1]
           rc2 == [rc1 EXCEPT ![team2.id][round] = @ + 1]
           context == [round |-> round, region |-> game.region,
                       gamesPlayedByTeam1 |-> Get0(st.gamesPlayed, team1.id),
                       gamesPlayedByTeam2 |-> Get0(st.gamesPlayed, team2.id)]
           p0 == computeBaseWinProbability(team1, team2, mode.weights)
           p1 == applySeedGapAdjustment(p0, team1.seed, team2.seed,
                                        mode.variance.seedGapSensitivity)
           p2 == adjustProbability(mode, p1, team1, team2, context)
           p3 == IF IsSet(game.liveGame) /\ game.liveGame[1].status # "pre-game"
                 THEN computeLiveAdjustedProbability(
                        p2, game.liveGame[1], game.liveGame[1].homeTeamId = team1.id)
                 ELSE p2
       IN
       With(Clamp(1, FX - 1, p3), LAMBDA prob :
       With(sampleOutcome(prob, mode.variance, round, st.rng), LAMBDA sample :
         LET winner == IF sample.team1Wins THEN team1 ELSE team2
             loser == IF sample.team1Wins THEN team2 ELSE team1
             gp1 == Put(st.gamesPlayed, winner.id, Get0(st.gamesPlayed, winner.id) + 1)
             gp2 == Put(gp1, loser.id, Get0(gp1, loser.id) + 1)
         IN [slots |-> setWinner(st.slots, game.slotId, winner.id),
             rng |-> sample.state,
             gamesPlayed |-> gp2,
             roundCounts |-> rc2,
             modeState |-> IF mode.hasSimState /\ IsSet(st.modeState)
                           THEN <<onGameComplete(mode, winner, loser, round, st.modeState[1])>>
                           ELSE st.modeState])))

\* A faulty variant of RunSeed: the clock seeds every run.
RunSeedClock(baseSeed, now, sim) == now + sim

\* The seed of run `sim`: baseSeed + sim, or Date.now() + sim without a baseSeed.
RunSeed(baseSeed, now, sim) == IF IsSet(baseSeed) THEN baseSeed[1] + sim ELSE now + sim

\* ------------------------------------------------------------------------
\* modes/registry.ts : modeRegistry is the Map id -> factory, kept as the
\* sequence of its <<id, factory>> entries in insertion order.  A call is
\* the record of what it leaves: the registry, the Error thrown (<<>> when
\* none; a message is the sequence of its pieces) and the value returned.
\* ------------------------------------------------------------------------

\* modeRegistry.has(id)
RegistryHas(registry, id) == \E i \in 1..Len(registry) : registry[i][1] = id

\* modeRegistry.get(id): <<>> for undefined
RegistryGet(registry, id) ==
  IF RegistryHas(registry, id)
  THEN <<registry[CHOOSE i \in 1..Len(registry) : registry[i][1] = id][2]>>
  ELSE Undefined

\* Array.from(modeRegistry.keys()).join(', ')
RECURSIVE JoinKeys(_, _)
JoinKeys(registry, i) ==
  IF i > Len(registry) THEN <<>>
  ELSE IF i = Len(registry) THEN <<registry[i][1]>>
  ELSE <<registry[i][1], ", ">> \o JoinKeys(registry, i + 1)

\* A faulty variant of registerMode: the later factory replaces the earlier.
registerModeOverwriting(registry, id, factory) ==
  [registry |->
     IF RegistryHas(registry, id)
     THEN [i \in 1..Len(registry) |->
             IF registry[i][1] = id THEN <<id, factory>> ELSE registry[i]]
     ELSE Push(registry, <<id, factory>>),
   thrown |-> Undefined,
   value |-> Undefined]

\* registerMode(id, factory)
registerMode(registry, id, factory) ==
  IF RegistryHas(registry, id)
  THEN [registry |-> registry,
        thrown |-> <<"Duplicate mode registration: \"", id, "\"">>,
        value |-> Undefined]
  ELSE [registry |-> Push(registry, <<id, factory>>),
        thrown |-> Undefined,
        value |-> Undefined]

\* A faulty variant of getMode: the message names only the id asked for.
getModeNotListing(registry, id) ==
  IF ~IsSet(RegistryGet(registry, id))
  THEN [registry |-> registry,
        thrown |-> <<"Unknown mode: \"", id, "\". Available modes: ">>,
        value |-> Undefined]
  ELSE [registry |-> registry,
        thrown |-> Undefined,
        value |-> <<[madeBy |-> RegistryGet(registry, id)[1]]>>]

\* getMode(id): factory() makes a new instance
getMode(registry, id) ==
  IF ~IsSet(RegistryGet(registry, id))
  THEN [registry |-> registry,
        thrown |-> <<"Unknown mode: \"", id, "\". Available modes: ">>
                     \o JoinKeys(registry, 1),
        value |-> Undefined]
  ELSE [registry |-> registry,
        thrown |-> Undefined,
        value |-> <<[madeBy |-> RegistryGet(registry, id)[1]]>>]

\* ------------------------------------------------------------------------
\* modes/implementations : adjustProbability of the registered modes.
\* Probabilities are fixed-point (FX is 1.0); a team here also carries its
\* optional `coaching` and `mascot` profiles (<<>> when it has none).
\* ------------------------------------------------------------------------

\* n / 100 and n / 1000 as probabilities
Pct(n) == (n * FX) \div 100
Mil(n) == (n * FX) \div 1000

\* A faulty variant of CinderellaAdjust: the result is not clamped.
CinderellaAdjustUnclamped(baseProbability, team1, team2, context) ==
  IF team1.seed - team2.seed = 0 THEN baseProbability
  ELSE ((baseProbability * 4) \div 10) + Pct(30) + Mil((team1.seed - team2.seed) * 25)

\* CinderellaMode.adjustProbability
CinderellaAdjust(baseProbability, team1, team2, context) ==
  LET seedDiff == team1.seed - team2.seed
      pulled == ((baseProbability * 4) \div 10) + Pct(30)
      adjusted == IF seedDiff > 0 THEN pulled + Mil(seedDiff * 25)
                  ELSE pulled - Mil(Abs(seedDiff) * 25)
  IN IF seedDiff = 0 THEN baseProbability
     ELSE Clamp(Pct(2), Pct(98), adjusted)

\* UpsetChaosMode.adjustProbability
UpsetChaosAdjust(baseProbability, team1, team2, context) ==
  LET chaosAdjusted == ((baseProbability * 55) \div 100) + Mil(225)
      seedBoost == Mil((team1.seed - team2.seed) * 12)
  IN Clamp(Pct(5), Pct(95), chaosAdjusted + seedBoost)

\* getChaosFactorForRound, in hundredths
getChaosFactorForRound(round) ==
  CASE round = "first-four" -> 5
    [] round = "round-of-64" -> 10
    [] round = "round-of-32" -> 20
    [] round = "sweet-sixteen" -> 35
    [] round = "elite-eight" -> 50
    [] round = "final-four" -> 70
    [] round = "championship" -> 85
    [] OTHER -> 10

\* ChaosLadderMode.adjustProbability
ChaosLadderAdjust(baseProbability, team1, team2, context) ==
  LET chaosFactor == getChaosFactorForRound(context.round)
      adjusted == ((baseProbability * (100 - chaosFactor)) \div 100) + Pct(chaosFactor) \div 2
  IN Clamp(Pct(2), Pct(98), adjusted)

\* computeCoachScore, the score times FX
computeCoachScore(team) ==
  IF ~IsSet(team.coaching) THEN ((100 - 3 * team.seed) * FX) \div 2
  ELSE LET c == team.coaching[1]
           totalGames == c.tournamentWins + c.tournamentLosses
           winRate == IF totalGames > 0 THEN (c.tournamentWins * FX) \div totalGames
                      ELSE FX \div 2
           expScore == Min(20 * FX, (c.yearsExperience * 12 * FX) \div 10)
           deepRunScore == (c.finalFourAppearances * 5 + c.championships * 10) * FX
           overperformScore == c.seedOverperformance * 8 * FX
       IN winRate * 40 + expScore + deepRunScore + overperformScore

\* getCoachWeightForRound, in hundredths
getCoachWeightForRound(round) ==
  CASE round = "round-of-64" -> 6
    [] round = "round-of-32" -> 8
    [] round = "sweet-sixteen" -> 10
    [] round = "elite-eight" -> 12
    [] round = "final-four" -> 14
    [] round = "championship" -> 16
    [] OTHER -> 8

\* CoachingMode.adjustProbability
CoachingAdjust(baseProbability, team1, team2, context) ==
  LET diff == (computeCoachScore(team1) - computeCoachScore(team2)) \div 100
  IN Clamp(Pct(2), Pct(98),
           baseProbability + (diff * getCoachWeightForRound(context.round)) \div 100)

\* TYPE_POWER[m.type] ?? 50
TYPE_POWER(type) ==
  CASE type = "mythical" -> 90
    [] type = "force-of-nature" -> 85
    [] type = "animal" -> 60
    [] type = "human" -> 45
    [] type = "object" -> 30
    [] type = "abstract" -> 35
    [] OTHER -> 50

\* SIZE_MULTIPLIER[m.size] ?? 1.0, in hundredths
SIZE_MULTIPLIER(size) ==
  CASE size = "massive" -> 130
    [] size = "large" -> 115
    [] size = "medium" -> 100
    [] size = "small" -> 85
    [] size = "tiny" -> 70
    [] OTHER -> 100

\* computeMascotPower, the power times FX (DEFAULT_COMBAT_RATING without a mascot)
computeMascotPower(team) ==
  IF ~IsSet(team.mascot) THEN 50 * FX
  ELSE LET m == team.mascot[1]
           flightBonus == IF m.flightCapable THEN 12 ELSE 0
           tenths == m.combatRating * 4 + TYPE_POWER(m.type) * 3
                       + (m.intimidationFactor * 3) * 2 + flightBonus * 10
       IN (((tenths * FX) \div 10) * SIZE_MULTIPLIER(m.size)) \div 100

\* MascotFightMode.adjustProbability
MascotFightAdjust(baseProbability, team1, team2, context) ==
  sigmoid((computeMascotPower(team1) - computeMascotPower(team2)) \div 30)

\* The modes whose adjustProbability ends in
\* Math.max(lo, Math.min(hi, <base and the mode's adjustment>)): lo and hi in
\* hundredths.  chalk and seed-killer compute the clamped value from a blend
\* of base and a historical rate; seed-killer returns base as it is for a
\* seed pair it has no rate for.
ClampBounds ==
  [id \in {"tempo-push", "fatigue", "turnover-battle", "defense-wins",
           "conference-strength", "momentum", "rivalry-revenge", "balanced-attack",
           "three-point-rain", "size-matters", "home-court", "experience-edge",
           "chalk", "seed-killer"} |->
     IF id = "momentum" THEN <<3, 97>> ELSE <<2, 98>>]

\* mode.adjustProbability(baseProbability, team1, team2, context) of the
\* registered mode modeId.  For a mode of ClampBounds, `clamped` is the value
\* the mode computes before it clamps, which depends on team metrics that
\* are left open here; seed-killer with clamped = <<>> is its return of base.
ModeAdjust(modeId, baseProbability, team1, team2, context, clamped) ==
  CASE modeId = "pure-statistical" ->
         adjustProbability(PureStatisticalMode, baseProbability, team1, team2, context)
    [] modeId = "cinderella" -> CinderellaAdjust(baseProbability, team1, team2, context)
    [] modeId = "upset-chaos" -> UpsetChaosAdjust(baseProbability, team1, team2, context)
    [] modeId = "chaos-ladder" -> ChaosLadderAdjust(baseProbability, team1, team2, context)
    [] modeId = "coaching" -> CoachingAdjust(baseProbability, team1, team2, context)
    [] modeId = "mascot-fight" -> MascotFightAdjust(baseProbability, team1, team2, context)
    [] OTHER ->
         IF modeId = "seed-killer" /\ ~IsSet(clamped) THEN baseProbability
         ELSE Clamp(Pct(ClampBounds[modeId][1]), Pct(ClampBounds[modeId][2]), clamped[1])

\* ------------------------------------------------------------------------
\* modes/mode-blender.ts : ModeBlender
\* ------------------------------------------------------------------------

\* components.reduce((sum, c) => sum + c.weight, 0)
RECURSIVE TotalWeight(_, _)
TotalWeight(components, i) ==
  IF i > Len(components) THEN 0 ELSE components[i].weight + TotalWeight(components, i + 1)

\* new ModeBlender(components, config): what the constructor throws, or the
\* fields of the blender it leaves
NewModeBlender(components) ==
  IF Len(components) < 2
  THEN [thrown |-> <<"ModeBlender requires at least 2 component modes">>, value |-> Undefined]
  ELSE LET hasWhimsical ==
             \E i \in 1..Len(components) : components[i].mode.confidenceTag = "whimsical"
           allResearch ==
             \A i \in 1..Len(components) : components[i].mode.category = "research"
       IN [thrown |-> Undefined,
           value |-> <<[components |-> components,
                        totalWeight |-> TotalWeight(components, 1),
                        category |-> IF hasWhimsical THEN "entertainment"
                                     ELSE IF allResearch THEN "research" ELSE "hybrid",
                        confidenceTag |-> IF hasWhimsical THEN "experimental"
                                          ELSE "experimental"]>>]

\* ------------------------------------------------------------------------
\* engine/bracket-propagator.ts : aggregateBracketResults
\* ------------------------------------------------------------------------

\* The loop over Object.entries(simResult.championshipCounts), from entry i on
\* (a team id is a tuple here, and the id '' is the empty tuple)
RECURSIVE ChampionScan(_, _, _, _)
ChampionScan(entries, i, mostLikelyChampion, maxChampProb) ==
  IF i > Len(entries) THEN mostLikelyChampion
  ELSE IF entries[i][2] > maxChampProb
       THEN ChampionScan(entries, i + 1, entries[i][1], entries[i][2])
       ELSE ChampionScan(entries, i + 1, mostLikelyChampion, maxChampProb)

\* aggregateBracketResults: the champion counts of teamResults (the numerators
\* of championshipProbability) and mostLikelyChampion.  `entries` is
\* Object.entries(simResult.championshipCounts), in key order.
aggregateBracketResults(entries, roster) ==
  LET championshipCounts == [id \in {entries[k][1] : k \in 1..Len(entries)} |->
                               entries[CHOOSE k \in 1..Len(entries) : entries[k][1] = id][2]]
  IN [champCounts |-> [i \in 1..Len(roster) |->
                         [teamId |-> roster[i].id, seed |-> roster[i].seed,
                          champCount |-> Get0(championshipCounts, roster[i].id)]],
      mostLikelyChampion |-> ChampionScan(entries, 1, <<>>, 0)]

\* ------------------------------------------------------------------------
\* engine/simulator.ts : runBracketSimulation, mergeResults
\* ------------------------------------------------------------------------

\* seed: Date.now() + i * 1000000
SEED_STRIDE == 1000000

\* A faulty variant of SplitTasks: the remainder is not handed out.
SplitTasksNoRemainder(simCount, workerCount, clock, i) ==
  [k \in 1..(IF simCount \div workerCount = 0 THEN 0 ELSE workerCount) |->
     [simulationCount |-> simCount \div workerCount,
      seed |-> clock[k] + (k - 1) * SEED_STRIDE]]

\* "Split simulations across workers": the tasks pushed by the iterations
\* i, i + 1, .. of the loop; clock[i + 1] is what Date.now() returns in
\* iteration i.
RECURSIVE SplitTasks(_, _, _, _)
SplitTasks(simCount, workerCount, clock, i) ==
  LET simsPerWorker == simCount \div workerCount
      remainder == simCount % workerCount
      count == simsPerWorker + (IF i < remainder THEN 1 ELSE 0)
  IN IF i >= workerCount THEN <<>>
     ELSE IF count = 0 THEN SplitTasks(simCount, workerCount, clock, i + 1)
     ELSE <<[simulationCount |-> count, seed |-> clock[i + 1] + i * SEED_STRIDE]>>
            \o SplitTasks(simCount, workerCount, clock, i + 1)

\* The results a worker can return for a task (sim-worker: simulateFullBracket
\* with task.simulationCount and task.seed).  totalSims is the task's
\* simulationCount and every team of the roster has its counts; which games
\* were won is left open: all runs of the task went to the same champion w,
\* or to none.
WorkerResults(task, roster) ==
  { [roundCounts |->
       [id \in TeamIds(roster) |->
          [r \in RoundSet |-> IF r = "round-of-64" \/ <<id>> = w
                              THEN task.simulationCount ELSE 0]],
     championshipCounts |->
       [id \in TeamIds(roster) |-> IF <<id>> = w THEN task.simulationCount ELSE 0],
     totalSims |-> task.simulationCount]
    : w \in {Undefined} \cup {<<id>> : id \in TeamIds(roster)} }

\* merged[k] = (merged[k] ?? 0) + count, for every entry of `counts`
MergeCounts(into, counts) ==
  [k \in (DOMAIN into) \cup (DOMAIN counts) |->
     IF k \in DOMAIN counts THEN Get0(into, k) + counts[k] ELSE into[k]]

\* A faulty variant of MergeResult: the later result's championship counts
\* replace the earlier ones.
MergeResultOverwriting(into, result) ==
  [roundCounts |->
     [t \in (DOMAIN into.roundCounts) \cup (DOMAIN result.roundCounts) |->
        IF t \in DOMAIN result.roundCounts
        THEN MergeCounts(IF t \in DOMAIN into.roundCounts THEN into.roundCounts[t] ELSE <<>>,
                         result.roundCounts[t])
        ELSE into.roundCounts[t]],
   championshipCounts |->
     [t \in (DOMAIN into.championshipCounts) \cup (DOMAIN result.championshipCounts) |->
        IF t \in DOMAIN result.championshipCounts
        THEN result.championshipCounts[t] ELSE into.championshipCounts[t]],
   totalSims |-> into.totalSims + result.totalSims]

\* The body of `for (const result of results)`
MergeResult(into, result) ==
  [roundCounts |->
     [t \in (DOMAIN into.roundCounts) \cup (DOMAIN result.roundCounts) |->
        IF t \in DOMAIN result.roundCounts
        THEN MergeCounts(IF t \in DOMAIN into.roundCounts THEN into.roundCounts[t] ELSE <<>>,
                         result.roundCounts[t])
        ELSE into.roundCounts[t]],
   championshipCounts |-> MergeCounts(into.championshipCounts, result.championshipCounts),
   totalSims |-> into.totalSims + result.totalSims]

RECURSIVE MergeFrom(_, _, _)
MergeFrom(into, list, i) ==
  IF i > Len(list) THEN into
  ELSE MergeFrom(MergeResult(into, list[i]), list, i + 1)

\* mergeResults(results)
mergeResults(list) ==
  MergeFrom([roundCounts |-> <<>>, championshipCounts |-> <<>>, totalSims |-> 0], list, 1)

\* ------------------------------------------------------------------------
\* ingestion/game-state-tracker.ts : GameStateTracker.  `states` is the Map
\* gameId -> LiveGameState, kept as the sequence of its values in insertion
\* order (Map.set on a known key keeps the key's place).
\* ------------------------------------------------------------------------

\* The fields of DIFF_FIELDS a LiveGameState carries here; the other fields
\* (possession, fouls, shooting counters, scoring run, timeouts) are equal in
\* every state the model feeds the tracker.
DIFF_FIELDS == <<"homeScore", "awayScore", "period", "timeRemainingSeconds", "status">>

\* this.states.get(gameId) ?? null : <<>> or <<state>>
TrackerGet(states, gameId) ==
  LET hits == {i \in 1..Len(states) : states[i].gameId = gameId}
  IN IF hits = {} THEN Undefined ELSE <<states[CHOOSE i \in hits : TRUE]>>

\* this.states.set(gameId, newState)
TrackerSet(states, newState) ==
  IF \E i \in 1..Len(states) : states[i].gameId = newState.gameId
  THEN [i \in 1..Len(states) |->
          IF states[i].gameId = newState.gameId THEN newState ELSE states[i]]
  ELSE Push(states, newState)

\* A faulty variant of computeChangedFields: lastUpdated is compared as well.
computeChangedFieldsStamped(previous, current) ==
  IF ~IsSet(previous) THEN <<"_initial">>
  ELSE SelectSeq(DIFF_FIELDS \o <<"lastUpdated">>, LAMBDA f : previous[1][f] # current[f])

\* computeChangedFields
computeChangedFields(previous, current) ==
  IF ~IsSet(previous) THEN <<"_initial">>
  ELSE SelectSeq(DIFF_FIELDS, LAMBDA f : previous[1][f] # current[f])

Includes(seq, e) == \E i \in 1..Len(seq) : seq[i] = e

\* updateState: the tracker's states after the call, whether a diff is
\* returned (null otherwise) and the payload of the 'game-completed' event
\* it emits, if it emits one.
updateState(states, newState) ==
  LET previous == TrackerGet(states, newState.gameId)
      changedFields == computeChangedFields(previous, newState)
      statusChanged == Includes(changedFields, "status")
  IN IF Len(changedFields) = 0 /\ IsSet(previous)
     THEN [states |-> states, changed |-> FALSE, completed |-> Undefined]
     ELSE [states |-> TrackerSet(states, newState),
           changed |-> TRUE,
           completed |->
             IF statusChanged /\ newState.status = "final"
             THEN <<[gameId |-> newState.gameId,
                     winnerId |-> IF newState.homeScore > newState.awayScore
                                  THEN newState.homeTeamId ELSE newState.awayTeamId]>>
             ELSE Undefined]

\* updateState: the value it returns, <<>> for null and <<diff>> otherwise
updateStateReturns(states, newState) ==
  LET previous == TrackerGet(states, newState.gameId)
      changedFields == computeChangedFields(previous, newState)
  IN IF Len(changedFields) = 0 /\ IsSet(previous) THEN Undefined
     ELSE <<[gameId |-> newState.gameId,
             changedFields |-> changedFields,
             scoreChanged |-> Includes(changedFields, "homeScore")
                                \/ Includes(changedFields, "awayScore"),
             periodChanged |-> Includes(changedFields, "period"),
             statusChanged |-> Includes(changedFields, "status"),
             previousState |-> previous,
             currentState |-> newState]>>

\* updateState: the events it emits on the event bus, in order
updateStateEmits(states, newState) ==
  LET returns == updateStateReturns(states, newState)
      diff == returns[1]
      previous == diff.previousState
      started == diff.statusChanged
                   /\ ~(IsSet(previous) /\ previous[1].status = "in-progress")
                   /\ newState.status = "in-progress"
      completed == diff.statusChanged /\ newState.status = "final"
  IN IF ~IsSet(returns) THEN <<>>
     ELSE <<[type |-> "game-state-changed", gameId |-> newState.gameId,
             previous |-> previous, current |-> newState,
             changedFields |-> diff.changedFields]>>
          \o (IF started
              THEN <<[type |-> "game-started", gameId |-> newState.gameId,
                      state |-> newState]>>
              ELSE <<>>)
          \o (IF completed
              THEN <<[type |-> "game-completed", gameId |-> newState.gameId,
                      state |-> newState,
                      winnerId |-> IF newState.homeScore > newState.awayScore
                                   THEN newState.homeTeamId ELSE newState.awayTeamId]>>
              ELSE <<>>)
          \o (IF diff.scoreChanged
              THEN <<[type |-> "score-update", gameId |-> newState.gameId,
                      homeScore |-> newState.homeScore, awayScore |-> newState.awayScore,
                      scoreDiff |-> newState.homeScore - newState.awayScore,
                      previousScoreDiff |->
                        IF IsSet(previous)
                        THEN previous[1].homeScore - previous[1].awayScore ELSE 0]>>
              ELSE <<>>)

\* ------------------------------------------------------------------------
\* engine/live-state-blender.ts : LiveStateBlender.  A blender is the record
\* of its fields baseBracket (the slot list) and lockedSlots; a method is an
\* operator from the blender to the blender it leaves and the value it
\* returns.
\* ------------------------------------------------------------------------

\* findLiveGameForSlot: <<>> for null, else <<game>>, the first game in Map
\* order whose two teams include team1Id and team2Id.
findLiveGameForSlot(slot, liveGames) ==
  IF ~IsSet(slot.team1Id) \/ ~IsSet(slot.team2Id) THEN Undefined
  ELSE LET hits == {i \in 1..Len(liveGames) :
                      /\ slot.team1Id \in {liveGames[i].homeTeamId, liveGames[i].awayTeamId}
                      /\ slot.team2Id \in {liveGames[i].homeTeamId, liveGames[i].awayTeamId}}
       IN IF hits = {} THEN Undefined
          ELSE <<liveGames[CHOOSE i \in hits : \A j \in hits : i <= j]>>

\* A faulty variant of the callback below: a final game always goes to the
\* home team, and a game at halftime is attached without being listed.
BlendSlotHomeWins(blender, slot, liveGames) ==
  LET found == findLiveGameForSlot(slot, liveGames)
  IN IF slot.slotId \in blender.lockedSlots THEN [slot |-> slot, list |-> "completed"]
     ELSE IF ~IsSet(found) THEN [slot |-> slot, list |-> "none"]
     ELSE IF found[1].status = "final"
          THEN [slot |-> [slot EXCEPT !.winnerId = found[1].homeTeamId,
                                      !.liveGame = found],
                list |-> "completed"]
          ELSE IF found[1].status = "in-progress"
          THEN [slot |-> [slot EXCEPT !.liveGame = found], list |-> "active"]
          ELSE [slot |-> [slot EXCEPT !.liveGame = found], list |-> "none"]

\* The callback of baseBracket.slots.map in blend: the slot it returns and
\* the list ("completed", "active" or "none") it pushes the slot id on.
BlendSlot(blender, slot, liveGames) ==
  LET found == findLiveGameForSlot(slot, liveGames)
  IN IF slot.slotId \in blender.lockedSlots THEN [slot |-> slot, list |-> "completed"]
     ELSE IF ~IsSet(found) THEN [slot |-> slot, list |-> "none"]
     ELSE LET liveGame == found[1]
          IN IF liveGame.status = "final"
             THEN [slot |-> [slot EXCEPT
                               !.winnerId = IF liveGame.homeScore > liveGame.awayScore
                                            THEN liveGame.homeTeamId
                                            ELSE liveGame.awayTeamId,
                               !.liveGame = <<liveGame>>],
                   list |-> "completed"]
             ELSE IF liveGame.status = "in-progress" \/ liveGame.status = "halftime"
             THEN [slot |-> [slot EXCEPT !.liveGame = <<liveGame>>], list |-> "active"]
             ELSE [slot |-> [slot EXCEPT !.liveGame = <<liveGame>>], list |-> "none"]

RECURSIVE SlotIdsListed(_, _, _)
SlotIdsListed(blended, list, i) ==
  IF i > Len(blended) THEN <<>>
  ELSE IF blended[i].list = list
       THEN <<blended[i].slot.slotId>> \o SlotIdsListed(blended, list, i + 1)
       ELSE SlotIdsListed(blended, list, i + 1)

\* A faulty variant of blend: it records the games it finds final as locked.
blendLocking(blender, liveGames) ==
  LET blended == [i \in 1..Len(blender.baseBracket) |->
                    BlendSlot(blender, blender.baseBracket[i], liveGames)]
      completed == SlotIdsListed(blended, "completed", 1)
  IN [blender |-> [blender EXCEPT !.lockedSlots =
                     @ \cup {completed[i] : i \in 1..Len(completed)}],
      result |-> [bracket |-> [i \in 1..Len(blended) |-> blended[i].slot],
                  activeGameSlots |-> SlotIdsListed(blended, "active", 1),
                  completedGameSlots |-> completed]]

\* LiveStateBlender.blend
blend(blender, liveGames) ==
  LET blended == [i \in 1..Len(blender.baseBracket) |->
                    BlendSlot(blender, blender.baseBracket[i], liveGames)]
  IN [blender |-> blender,
      result |-> [bracket |-> [i \in 1..Len(blended) |-> blended[i].slot],
                  activeGameSlots |-> SlotIdsListed(blended, "active", 1),
                  completedGameSlots |-> SlotIdsListed(blended, "completed", 1)]]

\* slots.find(s => s.slotId === slotId): the index of the first such slot, or 0
FindSlot(slots, slotId) ==
  LET hits == {i \in 1..Len(slots) : slots[i].slotId = slotId}
  IN IF hits = {} THEN 0 ELSE CHOOSE i \in hits : \A j \in hits : i <= j

\* A faulty variant of lockResult: the winner is not advanced.
lockResultNoAdvance(blender, slotId, winnerId) ==
  LET slots == blender.baseBracket
      hits == {i \in 1..Len(slots) : slots[i].slotId = slotId}
  IN [lockedSlots |-> blender.lockedSlots \cup {slotId},
      baseBracket |-> [i \in 1..Len(slots) |->
                         IF i \in hits
                         THEN [slots[i] EXCEPT !.winnerId = winnerId, !.liveGame = <<>>]
                         ELSE slots[i]]]

\* LiveStateBlender.lockResult
lockResult(blender, slotId, winnerId) ==
  LET slots == blender.baseBracket
      i == FindSlot(slots, slotId)
      won == [slots EXCEPT ![i].winnerId = winnerId, ![i].liveGame = Undefined]
      n == IF i # 0 /\ IsSet(slots[i].nextSlotId) THEN FindSlot(slots, slots[i].nextSlotId) ELSE 0
  IN [lockedSlots |-> blender.lockedSlots \cup {slotId},
      baseBracket |->
        IF i = 0 THEN slots
        ELSE IF n = 0 THEN won
        ELSE IF ~IsSet(won[n].team1Id)
             THEN [won EXCEPT ![n].team1Id = winnerId]
             ELSE [won EXCEPT ![n].team2Id = winnerId]]

\* ------------------------------------------------------------------------
\* pipeline/real-time-loop.ts : the handlers of a started RealTimeLoop, as
\* far as they touch the blender.  runSimulation is synchronous, so
\* queueResimulation always finds isSimulating false and runs it at once.
\* ------------------------------------------------------------------------

\* The loop in onGameCompleted: the index of the first slot of the blended
\* bracket whose liveGame has the payload's gameId, or 0.
FindSlotOfGame(slots, gameId) ==
  LET hits == {i \in 1..Len(slots) :
                 IsSet(slots[i].liveGame) /\ slots[i].liveGame[1].gameId = gameId}
  IN IF hits = {} THEN 0 ELSE CHOOSE i \in hits : \A j \in hits : i <= j

\* onGameCompleted from its blend's return value on: lockResult on the slot
\* found, if one is found.
onGameCompleted(blender, adjustedResult, payload) ==
  LET i == FindSlotOfGame(adjustedResult.bracket, payload.gameId)
  IN IF i = 0 THEN blender
     ELSE lockResult(blender, adjustedResult.bracket[i].slotId, payload.winnerId)

\* runSimulation up to the call of runBracketSimulationSync: blend over the
\* tracker's games.  live is the record of the loop's objects: trackerStates,
\* blender, adjusted (the last value of runSimulation's local, <<>> before
\* the first), pendingCompleted (the 'game-completed' payload being
\* dispatched) and completedAdjusted (onGameCompleted's local `adjusted`).
runSimulation(live) ==
  LET r == blend(live.blender, live.trackerStates)
  IN [live EXCEPT !.blender = r.blender, !.adjusted = <<r.result>>]

\* tracker.updateState(newState) with the loop listening: the map is set,
\* 'game-state-changed' runs onGameStateChanged -> runSimulation, and a
\* 'game-completed' payload is left for onGameCompleted.
HandleUpdateState(live, newState) ==
  LET u == updateState(live.trackerStates, newState)
  IN IF ~u.changed THEN live
     ELSE runSimulation([live EXCEPT !.trackerStates = u.states,
                                     !.pendingCompleted = u.completed])

\* onGameCompleted, its first two statements
HandleCompletedBlend(live) ==
  LET r == blend(live.blender, live.trackerStates)
  IN [live EXCEPT !.blender = r.blender, !.completedAdjusted = <<r.result>>]

\* onGameCompleted, the rest: lock, then queueResimulation -> runSimulation
HandleCompletedLock(live) ==
  runSimulation([live EXCEPT
    !.blender = onGameCompleted(live.blender, live.completedAdjusted[1],
                                live.pendingCompleted[1]),
    !.pendingCompleted = Undefined,
    !.completedAdjusted = Undefined])

\* new RealTimeLoop({bracket: buildBracket(teams), ...}).start()
LiveStart(roster) ==
  [trackerStates |-> <<>>,
   blender |-> [baseBracket |-> buildBracket(roster), lockedSlots |-> {}],
   adjusted |-> Undefined,
   pendingCompleted |-> Undefined,
   completedAdjusted |-> Undefined]

\* ------------------------------------------------------------------------
\* pipeline/real-time-loop.ts : the scheduling of a RealTimeLoop.  A loop is
\* the record of its fields isRunning, isSimulating and pendingSimulation,
\* of the setTimeout callbacks it has pending (timers), of where its
\* runSimulation stands (at: "idle" outside it, "simulate" before the blend
\* and the Monte Carlo run, "broadcast1" and "broadcast2" inside the first
\* and the second call of broadcastFn, "finally" before the finally block)
\* and of what it has done: the events its listeners were called with
\* (heard), the simulations it has started (started), its calls of
\* broadcastFn (broadcasts), the number of events the tracker had stored when
\* the running simulation took its snapshot (snapshot) and when the last
\* simulation that ran to its end took its own (completedSnapshot), the
\* simulations started since a follow-up was last scheduled (sinceScheduled)
\* and the counts at the last stop() (stopped).  JavaScript runs a handler
\* to completion: another handler runs inside runSimulation only when it is
\* called from broadcastFn.
\* ------------------------------------------------------------------------

\* new RealTimeLoop(options)
NewRealTimeLoop ==
  [isRunning |-> FALSE, isSimulating |-> FALSE, pendingSimulation |-> FALSE,
   timers |-> 0, at |-> "idle", heard |-> 0, started |-> 0, broadcasts |-> 0,
   thrown |-> 0, stops |-> 0, snapshot |-> 0, completedSnapshot |-> 0,
   sinceScheduled |-> Undefined, stopped |-> Undefined]

\* start(): the listeners are on the event bus exactly while isRunning
start(l) ==
  IF l.isRunning THEN l ELSE [l EXCEPT !.isRunning = TRUE, !.stopped = Undefined]

\* stop()
stop(l) ==
  IF ~l.isRunning THEN l
  ELSE [l EXCEPT !.isRunning = FALSE, !.stops = @ + 1,
                 !.stopped = <<[started |-> l.started, broadcasts |-> l.broadcasts]>>]

\* runSimulation up to its try block: the flags, then the snapshot of the
\* tracker's games
runSimulationEnter(l) ==
  [l EXCEPT !.isSimulating = TRUE, !.pendingSimulation = FALSE,
            !.at = "simulate", !.snapshot = l.heard, !.started = @ + 1,
            !.sinceScheduled = IF IsSet(@) THEN <<@[1] + 1>> ELSE @]

\* queueResimulation
queueResimulation(l) ==
  IF ~l.isRunning THEN l
  ELSE IF l.isSimulating THEN [l EXCEPT !.pendingSimulation = TRUE]
  ELSE runSimulationEnter(l)

\* onGameStateChanged and onGameCompleted, as far as the scheduling goes
\* (onGameCompleted blends and locks before it queues)
onEvent(l) == queueResimulation([l EXCEPT !.heard = @ + 1])

\* the finally block of runSimulation
runSimulationFinally(l) ==
  IF l.pendingSimulation /\ l.isRunning
  THEN [l EXCEPT !.isSimulating = FALSE, !.at = "idle", !.timers = @ + 1,
                 !.sinceScheduled = <<0>>]
  ELSE [l EXCEPT !.isSimulating = FALSE, !.at = "idle"]

\* ------------------------------------------------------------------------
\* The games the tracker is fed
\* ------------------------------------------------------------------------

\* gameId -> <<homeTeamId, awayTeamId>>.  g1 is east-r1-g1 (1 v 16), g2 is
\* east-r1-g2 (8 v 9) with the 9 seed at home, g3 is the round-of-32 game of
\* the 9 seed and the 1 seed, which no slot holds before both have advanced.
GameIds == {"g1", "g2", "g3"}
GameTeams(gameId) ==
  CASE gameId = "g1" -> << <<"east", 1>>, <<"east", 16>> >>
    [] gameId = "g2" -> << <<"east", 9>>, <<"east", 8>> >>
    [] gameId = "g3" -> << <<"east", 9>>, <<"east", 1>> >>

LiveGame(gameId, status, homeScore, awayScore, period, timeRemainingSeconds) ==
  [gameId |-> gameId,
   homeTeamId |-> GameTeams(gameId)[1], awayTeamId |-> GameTeams(gameId)[2],
   status |-> status, homeScore |-> homeScore, awayScore |-> awayScore,
   period |-> period, timeRemainingSeconds |-> timeRemainingSeconds]

\* The states a feed reports for a game
FeedStates(gameId) ==
  CASE gameId = "g1" ->
         { LiveGame("g1", "pre-game", 0, 0, 1, 1200),
           LiveGame("g1", "in-progress", 30, 25, 1, 600),
           LiveGame("g1", "final", 70, 60, 2, 0),
           LiveGame("g1", "final", 60, 70, 2, 0) }
    [] gameId = "g2" ->
         { LiveGame("g2", "pre-game", 0, 0, 1, 1200),
           LiveGame("g2", "halftime", 35, 40, 2, 1200),
           LiveGame("g2", "final", 70, 60, 2, 0),
           LiveGame("g2", "final", 65, 65, 2, 0) }
    [] gameId = "g3" ->
         { LiveGame("g3", "in-progress", 30, 25, 1, 600),
           LiveGame("g3", "final", 70, 60, 2, 0) }

\* ------------------------------------------------------------------------
\* Bounds
\* ------------------------------------------------------------------------
MaxSims == 2          \* simulations of one invocation: 1..MaxSims
MaxInvocations == 2   \* invocations of simulateFullBracket in one behaviour
MaxSeed == 0          \* explicit base seeds: 0..MaxSeed
MaxClock == 1         \* Date.now() runs over 0..MaxClock
MaxRosterShift == 63  \* rosters: the mock roster rotated by 0..MaxRosterShift
MaxDropped == 1       \* partial rosters: the mock roster without its team 1..MaxDropped
MaxTotal == 4         \* small totals of runBracketSimulation: 0..MaxTotal
MaxWorkers == 3       \* CONFIG.WORKER_THREADS: 1..MaxWorkers
MaxComponents == 3    \* components of a ModeBlender: 1..MaxComponents
MaxChampCount == 2    \* championshipCounts of a team: 0..MaxChampCount
MaxStamp == 1         \* lastUpdated of a reported state: 0..MaxStamp
MaxEvents == 3        \* events a RealTimeLoop's listeners are called with
MaxThrows == 1        \* simulations and broadcasts of a RealTimeLoop that throw
MaxStops == 1         \* calls of stop() on a running RealTimeLoop

\* ------------------------------------------------------------------------
\* State
\* ------------------------------------------------------------------------
VARIABLES
  teams,               \* the roster (Team[])
  trackerStates,       \* GameStateTracker.states
  baseBracket,         \* LiveStateBlender.baseBracket.slots; <<>> before buildBracket
  lockedSlots,         \* LiveStateBlender.lockedSlots
  adjusted,            \* runSimulation's `adjusted`, <<>> before the first blend
  pendingCompleted,    \* the 'game-completed' payload being dispatched, or <<>>
  completedAdjusted,   \* onGameCompleted's `adjusted`, <<>> outside the handler
  now,                 \* Date.now()
  mode,                \* the SimulationMode in use
  pc,                  \* simulateFullBracket: "idle", "loop" (head of the run loop), "games"
  args,                \* its arguments: bracket, simulations, baseSeed
  sim,                 \* the run loop's counter
  run,                 \* state, rng, gamesPlayed of the run; roundCounts; modeState
  championshipCounts,
  roundIdx,            \* position in ROUNDS_IN_ORDER
  games,               \* the ready games listed for the round
  gameIdx,             \* position in games
  returned,            \* the invocations that have returned: args, time of call, result
  driverArgs,          \* runBracketSimulation: simCount and workerCount, <<>> before the call
  tasks,               \* its `tasks`
  results,             \* the workers' results, in task order; <<>> for one still running
  merged,              \* its `merged`, <<>> before mergeResults
  regrouped,           \* mergeResults of the same results in another order or grouping
  modeRegistry,        \* registry.ts modeRegistry
  registryCall,        \* the last call on the registry: its arguments, what it threw or returned
  modeBlender,         \* new ModeBlender(..): what it threw or the blender; <<>> before
  adjustCall,          \* a call of a mode's adjustProbability: arguments and result
  aggregated,          \* a call of aggregateBracketResults: arguments and result
  trackerCall,         \* a call of GameStateTracker.updateState: arguments, return value, events
  probabilityCall,     \* a call into probability-model.ts: arguments and results
  loop                 \* a RealTimeLoop with its timers and what it has done; <<>> before

liveVars == <<trackerStates, baseBracket, lockedSlots, adjusted, pendingCompleted,
              completedAdjusted>>
simVars == <<now, pc, args, sim, run, championshipCounts, roundIdx, games, gameIdx, returned>>
driverVars == <<driverArgs, tasks, results, merged, regrouped>>
registryVars == <<modeRegistry, registryCall>>
lateVars == <<trackerCall, probabilityCall, loop>>
restVars == <<driverVars, registryVars, modeBlender, adjustCall, aggregated, lateVars>>
vars == <<teams, mode, liveVars, simVars, restVars>>

Live ==
  [trackerStates |-> trackerStates,
   blender |-> [baseBracket |-> baseBracket, lockedSlots |-> lockedSlots],
   adjusted |-> adjusted,
   pendingCompleted |-> pendingCompleted,
   completedAdjusted |-> completedAdjusted]

SetLive(live) ==
  /\ trackerStates' = live.trackerStates
  /\ baseBracket' = live.blender.baseBracket
  /\ lockedSlots' = live.blender.lockedSlots
  /\ adjusted' = live.adjusted
  /\ pendingCompleted' = live.pendingCompleted
  /\ completedAdjusted' = live.completedAdjusted

NoRun == [slots |-> <<>>, rng |-> <<>>, gamesPlayed |-> <<>>,
          roundCounts |-> <<>>, modeState |-> Undefined]

SimIdle ==
  /\ now = 0
  /\ pc = "idle"
  /\ args = Undefined
  /\ sim = 0
  /\ run = NoRun
  /\ championshipCounts = <<>>
  /\ roundIdx = 0
  /\ games = <<>>
  /\ gameIdx = 0
  /\ returned = <<>>

\* runBracketSimulation has not been called
DriverIdle ==
  /\ driverArgs = Undefined
  /\ tasks = <<>>
  /\ results = <<>>
  /\ merged = Undefined
  /\ regrouped = Undefined

\* The registry module has been loaded and no mode has registered
RegistryIdle ==
  /\ modeRegistry = <<>>
  /\ registryCall = Undefined

\* Nothing outside the bracket, the loop and the propagator has run
RestIdle ==
  /\ DriverIdle
  /\ RegistryIdle
  /\ modeBlender = Undefined
  /\ adjustCall = Undefined
  /\ aggregated = Undefined
  /\ trackerCall = Undefined
  /\ probabilityCall = Undefined
  /\ loop = Undefined

\* ------------------------------------------------------------------------
\* SpecBuild: buildBracket applied to a roster
\* ------------------------------------------------------------------------
Rotate(seq, k) == [i \in 1..Len(seq) |-> seq[((i - 1 + k) % Len(seq)) + 1]]

Rosters == {Rotate(generateMockTeams, k) : k \in 0..MaxRosterShift}

InitBuild ==
  /\ teams \in Rosters
  /\ mode = PureStatisticalMode
  /\ trackerStates = <<>>
  /\ baseBracket = <<>>
  /\ lockedSlots = {}
  /\ adjusted = Undefined
  /\ pendingCompleted = Undefined
  /\ completedAdjusted = Undefined
  /\ SimIdle
  /\ RestIdle

BuildBracket ==
  /\ baseBracket = <<>>
  /\ baseBracket' = buildBracket(teams)
  /\ UNCHANGED <<restVars, teams, mode, trackerStates, lockedSlots, adjusted, pendingCompleted,
                 completedAdjusted, simVars>>

NextBuild == BuildBracket

SpecBuild == InitBuild /\ [][NextBuild]_vars

\* ------------------------------------------------------------------------
\* SpecLive: a started RealTimeLoop fed by the tracker
\* ------------------------------------------------------------------------
InitLive ==
  /\ teams = generateMockTeams
  /\ mode = PureStatisticalMode
  /\ trackerStates = LiveStart(generateMockTeams).trackerStates
  /\ baseBracket = LiveStart(generateMockTeams).blender.baseBracket
  /\ lockedSlots = LiveStart(generateMockTeams).blender.lockedSlots
  /\ adjusted = LiveStart(generateMockTeams).adjusted
  /\ pendingCompleted = LiveStart(generateMockTeams).pendingCompleted
  /\ completedAdjusted = LiveStart(generateMockTeams).completedAdjusted
  /\ SimIdle
  /\ RestIdle

UpdateState(newState) ==
  /\ pc = "idle"
  /\ ~IsSet(pendingCompleted)
  /\ updateState(trackerStates, newState).changed
  /\ SetLive(HandleUpdateState(Live, newState))
  /\ UNCHANGED <<restVars, teams, mode, simVars>>

OnGameCompletedBlend ==
  /\ pc = "idle"
  /\ IsSet(pendingCompleted)
  /\ ~IsSet(completedAdjusted)
  /\ SetLive(HandleCompletedBlend(Live))
  /\ UNCHANGED <<restVars, teams, mode, simVars>>

OnGameCompletedLock ==
  /\ pc = "idle"
  /\ IsSet(pendingCompleted)
  /\ IsSet(completedAdjusted)
  /\ SetLive(HandleCompletedLock(Live))
  /\ UNCHANGED <<restVars, teams, mode, simVars>>

NextLive ==
  \/ \E g \in GameIds : \E newState \in FeedStates(g) : UpdateState(newState)
  \/ OnGameCompletedBlend
  \/ OnGameCompletedLock

SpecLive == InitLive /\ [][NextLive]_vars

\* ------------------------------------------------------------------------
\* Spec: the loop fed with one game, and simulateFullBracket on the bracket
\* runSimulation hands it (the built bracket before any blend)
\* ------------------------------------------------------------------------

\* The states the feed reports for g1 here
SimFeed ==
  { LiveGame("g1", "pre-game", 0, 0, 1, 1200),
    LiveGame("g1", "in-progress", 30, 25, 1, 600),
    LiveGame("g1", "final", 70, 60, 2, 0) }

\* The feed of a game only moves forward
StatusRank(status) ==
  CASE status = "pre-game" -> 1
    [] status = "in-progress" -> 2
    [] status = "halftime" -> 3
    [] status = "final" -> 4

MovesForward(newState) ==
  \A k \in 1..Len(trackerStates) :
    trackerStates[k].gameId = newState.gameId =>
      StatusRank(trackerStates[k].status) < StatusRank(newState.status)

Init ==
  /\ teams = generateMockTeams
  /\ mode \in {PureStatisticalMode, FatigueTrackingMode}
  /\ trackerStates = LiveStart(generateMockTeams).trackerStates
  /\ baseBracket = LiveStart(generateMockTeams).blender.baseBracket
  /\ lockedSlots = LiveStart(generateMockTeams).blender.lockedSlots
  /\ adjusted = LiveStart(generateMockTeams).adjusted
  /\ pendingCompleted = LiveStart(generateMockTeams).pendingCompleted
  /\ completedAdjusted = LiveStart(generateMockTeams).completedAdjusted
  /\ SimIdle
  /\ RestIdle

\* The bracket handed over: runSimulation passes adjusted.bracket; before any
\* blend the built bracket is passed as it is (run-tournament, the tests).
InputBracket == IF IsSet(adjusted) THEN adjusted[1].bracket ELSE baseBracket

\* Time passes.  `now` is Date.now() counted from the first time the
\* propagator reads it, so the clock moves only once a run has been seeded.
Tick ==
  /\ \/ pc = "loop" /\ sim > 0
     \/ pc = "idle" /\ returned # <<>>
  /\ now < MaxClock
  /\ now' = now + 1
  /\ UNCHANGED <<restVars, teams, mode, liveVars, pc, args, sim, run, championshipCounts,
                 roundIdx, games, gameIdx, returned>>

\* Entry of simulateFullBracket up to the head of the run loop
Invoke(simulations, baseSeed) ==
  /\ pc = "idle"
  /\ ~IsSet(completedAdjusted)
  /\ args' = <<[bracket |-> InputBracket, simulations |-> simulations,
                baseSeed |-> baseSeed, calledAt |-> now]>>
  /\ run' = [NoRun EXCEPT !.roundCounts = InitRoundCounts(teams),
                          !.modeState = initializeSimState(mode)]
  /\ championshipCounts' = InitChampionshipCounts(teams)
  /\ sim' = 0
  /\ pc' = "loop"
  /\ UNCHANGED <<restVars, teams, mode, liveVars, now, roundIdx, games, gameIdx, returned>>

\* The first invocation
SimStart(simulations, baseSeed) ==
  /\ returned = <<>>
  /\ Invoke(simulations, baseSeed)

\* Head of an iteration: seed, rng, state, gamesPlayed, and the first round's
\* ready games
RunStart ==
  /\ pc = "loop"
  /\ sim < args[1].simulations
  /\ LET state == NewBracketSimState(args[1].bracket)
     IN /\ run' = [run EXCEPT !.slots = state,
                              !.rng = createRng(RunSeed(args[1].baseSeed, now, sim)),
                              !.gamesPlayed = <<>>]
        /\ games' = getReadyGamesForRound(state, ROUNDS_IN_ORDER[1])
  /\ roundIdx' = 1
  /\ gameIdx' = 1
  /\ pc' = "games"
  /\ UNCHANGED <<restVars, teams, mode, liveVars, now, args, sim, championshipCounts, returned>>

\* One iteration of `for (const game of games)`
GameStep ==
  /\ pc = "games"
  /\ gameIdx <= Len(games)
  /\ \E played \in {PlayGame(run, teams, mode, ROUNDS_IN_ORDER[roundIdx], games[gameIdx])} :
       /\ run' = played
       /\ args' = <<[args[1] EXCEPT !.bracket = BracketAfterWrites(@, played.slots)]>>
  /\ gameIdx' = gameIdx + 1
  /\ UNCHANGED <<restVars, teams, mode, liveVars, now, pc, sim, championshipCounts,
                 roundIdx, games, returned>>

\* The next iteration of `for (const round of ROUNDS_IN_ORDER)`
NextRound ==
  /\ pc = "games"
  /\ gameIdx > Len(games)
  /\ roundIdx < Len(ROUNDS_IN_ORDER)
  /\ roundIdx' = roundIdx + 1
  /\ games' = getReadyGamesForRound(run.slots, ROUNDS_IN_ORDER[roundIdx + 1])
  /\ gameIdx' = 1
  /\ UNCHANGED <<restVars, teams, mode, liveVars, now, pc, args, sim, run, championshipCounts,
                 returned>>

\* After the last round: "Record champion", sim++
RunEnd ==
  /\ pc = "games"
  /\ gameIdx > Len(games)
  /\ roundIdx = Len(ROUNDS_IN_ORDER)
  /\ LET champion == getChampion(run.slots)
     IN championshipCounts' =
          IF IsSet(champion)
          THEN Put(championshipCounts, champion, Get0(championshipCounts, champion) + 1)
          ELSE championshipCounts
  /\ sim' = sim + 1
  /\ pc' = "loop"
  /\ UNCHANGED <<restVars, teams, mode, liveVars, now, args, run, roundIdx, games, gameIdx, returned>>

\* return { roundCounts, championshipCounts, totalSims }
SimReturn ==
  /\ pc = "loop"
  /\ sim >= args[1].simulations
  /\ returned' = Push(returned, [args |-> args[1],
                                 result |-> [roundCounts |-> run.roundCounts,
                                             championshipCounts |-> championshipCounts,
                                             totalSims |-> args[1].simulations]])
  /\ pc' = "idle"
  /\ UNCHANGED <<restVars, teams, mode, liveVars, now, args, sim, run, championshipCounts,
                 roundIdx, games, gameIdx>>

SeedArgs == {Undefined} \cup {<<s>> : s \in 0..MaxSeed}

SimNext ==
  \/ Tick
  \/ RunStart
  \/ GameStep
  \/ NextRound
  \/ RunEnd
  \/ SimReturn

Next ==
  \/ \E newState \in SimFeed : MovesForward(newState) /\ UpdateState(newState)
  \/ OnGameCompletedBlend
  \/ OnGameCompletedLock
  \/ \E simulations \in 1..MaxSims : \E baseSeed \in SeedArgs :
       SimStart(simulations, baseSeed)
  \/ SimNext

Spec == Init /\ [][Next]_vars

\* ------------------------------------------------------------------------
\* SpecRepeat: simulateFullBracket called on the built bracket, and called
\* again after it has returned
\* ------------------------------------------------------------------------
InitRepeat ==
  /\ Init
  /\ mode = PureStatisticalMode

\* A later invocation, with any arguments
SimAgain(simulations, baseSeed) ==
  /\ returned # <<>>
  /\ Len(returned) < MaxInvocations
  /\ Invoke(simulations, baseSeed)

NextRepeat ==
  \/ \E simulations \in 1..MaxSims : \E baseSeed \in SeedArgs :
       \/ SimStart(simulations, baseSeed)
       \/ SimAgain(simulations, baseSeed)
  \/ SimNext

SpecRepeat == InitRepeat /\ [][NextRepeat]_vars

\* ------------------------------------------------------------------------
\* SpecPartial: simulateFullBracket called with the built bracket and a
\* roster that lacks one of the bracket's teams
\* ------------------------------------------------------------------------

\* The roster without its k-th team
DropTeam(roster, k) == SubSeq(roster, 1, k - 1) \o SubSeq(roster, k + 1, Len(roster))

InitPartial ==
  /\ teams \in {DropTeam(generateMockTeams, k) : k \in 1..MaxDropped}
  /\ mode = PureStatisticalMode
  /\ trackerStates = LiveStart(generateMockTeams).trackerStates
  /\ baseBracket = LiveStart(generateMockTeams).blender.baseBracket
  /\ lockedSlots = LiveStart(generateMockTeams).blender.lockedSlots
  /\ adjusted = LiveStart(generateMockTeams).adjusted
  /\ pendingCompleted = LiveStart(generateMockTeams).pendingCompleted
  /\ completedAdjusted = LiveStart(generateMockTeams).completedAdjusted
  /\ SimIdle
  /\ RestIdle

NextPartial ==
  \/ \E simulations \in 1..MaxSims : \E baseSeed \in SeedArgs :
       SimStart(simulations, baseSeed)
  \/ SimNext

SpecPartial == InitPartial /\ [][NextPartial]_vars

\* ------------------------------------------------------------------------
\* SpecInvalid: buildBracket applied to a roster that is not 4 regions x
\* seeds 1..16, and new BracketSimState applied to a corrupt slot list
\* ------------------------------------------------------------------------

\* The roster with its k-th team given the next seed of its region: the
\* region then has one seed twice and one seed missing
Reseed(roster, k) == [roster EXCEPT ![k].seed = (roster[k].seed % TEAMS_PER_REGION) + 1]

InvalidRosters ==
  {DropTeam(generateMockTeams, k) : k \in 1..Len(generateMockTeams)}
    \cup {Reseed(generateMockTeams, k) : k \in 1..Len(generateMockTeams)}

\* Slot lists a caller can put in a SerializedBracket: the built bracket with
\* a slotId used twice, with a cycle (ff-g1 feeding back into east-r4-g1),
\* and with a feeder of east-r2-g1 missing
CorruptBrackets ==
  LET built == buildBracket(generateMockTeams)
  IN { [built EXCEPT ![2].slotId = built[1].slotId],
       [i \in 1..Len(built) |->
          IF built[i].slotId = ff1Id
          THEN [built[i] EXCEPT !.nextSlotId = RegionalSlotId("east", 4, 1)]
          ELSE built[i]],
       SubSeq(built, 2, Len(built)) }

InitInvalid ==
  /\ teams \in InvalidRosters
  /\ mode = PureStatisticalMode
  /\ trackerStates = <<>>
  /\ baseBracket = <<>>
  /\ lockedSlots = {}
  /\ adjusted = Undefined
  /\ pendingCompleted = Undefined
  /\ completedAdjusted = Undefined
  /\ SimIdle
  /\ RestIdle

\* new BracketSimState(bracket)
ConstructState(bracketSlots) ==
  /\ run.slots = <<>>
  /\ run' = [run EXCEPT !.slots = NewBracketSimState(bracketSlots)]
  /\ UNCHANGED <<restVars, teams, mode, liveVars, now, pc, args, sim, championshipCounts,
                 roundIdx, games, gameIdx, returned>>

NextInvalid ==
  \/ BuildBracket
  \/ \E bracketSlots \in CorruptBrackets : ConstructState(bracketSlots)

SpecInvalid == InitInvalid /\ [][NextInvalid]_vars

\* ------------------------------------------------------------------------
\* SpecDrive: runBracketSimulation: the split into tasks, the workers, the
\* merge; and mergeResults applied again to the same results
\* ------------------------------------------------------------------------

\* The roster handed to runBracketSimulation here: two teams
DriveRoster == <<MockTeam("east", 1), MockTeam("east", 16)>>

\* The totals asked for: the small ones, and for each worker count the total
\* that gives every worker one run more than the seed stride
SimCounts == (0..MaxTotal) \cup {w * (SEED_STRIDE + 1) : w \in 1..MaxWorkers}

InitDrive ==
  /\ teams = DriveRoster
  /\ mode = PureStatisticalMode
  /\ trackerStates = <<>>
  /\ baseBracket = <<>>
  /\ lockedSlots = {}
  /\ adjusted = Undefined
  /\ pendingCompleted = Undefined
  /\ completedAdjusted = Undefined
  /\ SimIdle
  /\ RestIdle

\* runBracketSimulation up to the dispatch of the tasks.  The loop reads
\* Date.now() once per iteration; the clock does not go back.
RunBracketSimulation(simCount, workerCount) ==
  /\ driverArgs = Undefined
  /\ \E clock \in [1..workerCount -> 0..MaxClock] :
       /\ \A i \in 1..(workerCount - 1) : clock[i] <= clock[i + 1]
       /\ \E split \in {SplitTasks(simCount, workerCount, clock, 0)} :
            /\ tasks' = split
            /\ results' = [i \in 1..Len(split) |-> Undefined]
  /\ driverArgs' = <<[simCount |-> simCount, workerCount |-> workerCount]>>
  /\ UNCHANGED <<teams, mode, liveVars, simVars, registryVars, modeBlender, adjustCall, aggregated, merged, regrouped, lateVars>>

\* workerPool.run(task) resolves
WorkerDone(i) ==
  /\ ~IsSet(results[i])
  /\ \E result \in WorkerResults(tasks[i], teams) :
       results' = [results EXCEPT ![i] = <<result>>]
  /\ UNCHANGED <<teams, mode, liveVars, simVars, registryVars, modeBlender, adjustCall, aggregated, driverArgs, tasks, merged, regrouped, lateVars>>

\* The results Promise.all resolves to
Resolved == [i \in 1..Len(results) |-> results[i][1]]

\* Promise.all has resolved: mergeResults(results)
Merge ==
  /\ IsSet(driverArgs)
  /\ \A i \in 1..Len(results) : IsSet(results[i])
  /\ ~IsSet(merged)
  /\ merged' = <<mergeResults(Resolved)>>
  /\ UNCHANGED <<teams, mode, liveVars, simVars, registryVars, modeBlender, adjustCall, aggregated, driverArgs, tasks, results, regrouped, lateVars>>

\* The permutations of 1..n
Orders(n) == {f \in [1..n -> 1..n] : \A i, j \in 1..n : f[i] = f[j] => i = j}

\* mergeResults of the same results in another order
MergePermuted ==
  /\ IsSet(merged)
  /\ ~IsSet(regrouped)
  /\ \E f \in Orders(Len(results)) :
       regrouped' = <<[order |-> f, groups |-> Undefined,
                       result |-> mergeResults([i \in 1..Len(results) |-> Resolved[f[i]]])]>>
  /\ UNCHANGED <<teams, mode, liveVars, simVars, registryVars, modeBlender, adjustCall, aggregated, driverArgs, tasks, results, merged, lateVars>>

\* mergeResults of two groups merged on their own, in either order
MergeSplit ==
  /\ IsSet(merged)
  /\ ~IsSet(regrouped)
  /\ \E k \in 0..Len(results) :
       \E head \in {mergeResults(SubSeq(Resolved, 1, k))} :
         \E rest \in {mergeResults(SubSeq(Resolved, k + 1, Len(results)))} :
           \/ regrouped' = <<[order |-> Undefined, groups |-> <<k, "head first">>,
                              result |-> mergeResults(<<head, rest>>)]>>
           \/ regrouped' = <<[order |-> Undefined, groups |-> <<k, "rest first">>,
                              result |-> mergeResults(<<rest, head>>)]>>
  /\ UNCHANGED <<teams, mode, liveVars, simVars, registryVars, modeBlender, adjustCall, aggregated, driverArgs, tasks, results, merged, lateVars>>

NextDrive ==
  \/ \E simCount \in SimCounts : \E workerCount \in 1..MaxWorkers :
       RunBracketSimulation(simCount, workerCount)
  \/ \E i \in 1..Len(results) : WorkerDone(i)
  \/ Merge
  \/ MergePermuted
  \/ MergeSplit

SpecDrive == InitDrive /\ [][NextDrive]_vars

\* ------------------------------------------------------------------------
\* SpecRegistry: registerMode and getMode called in any order
\* ------------------------------------------------------------------------

\* The ids used in the calls
ModeIds == {"pure-statistical", "cinderella", "chalk"}

\* The factories handed to registerMode: for an id, the one its module
\* registers and another one
Factories == {"own factory", "other factory"}

InitRegistry ==
  /\ teams = <<>>
  /\ mode = PureStatisticalMode
  /\ trackerStates = <<>>
  /\ baseBracket = <<>>
  /\ lockedSlots = {}
  /\ adjusted = Undefined
  /\ pendingCompleted = Undefined
  /\ completedAdjusted = Undefined
  /\ SimIdle
  /\ RestIdle

RegisterMode(id, factory) ==
  /\ \E call \in {registerMode(modeRegistry, id, factory)} :
       /\ modeRegistry' = call.registry
       /\ registryCall' = <<[op |-> "registerMode", id |-> id, factory |-> <<factory>>,
                             thrown |-> call.thrown, value |-> call.value]>>
  /\ UNCHANGED <<teams, mode, liveVars, simVars, driverVars, modeBlender, adjustCall, aggregated, lateVars>>

GetMode(id) ==
  /\ \E call \in {getMode(modeRegistry, id)} :
       /\ modeRegistry' = call.registry
       /\ registryCall' = <<[op |-> "getMode", id |-> id, factory |-> Undefined,
                             thrown |-> call.thrown, value |-> call.value]>>
  /\ UNCHANGED <<teams, mode, liveVars, simVars, driverVars, modeBlender, adjustCall, aggregated, lateVars>>

NextRegistry ==
  \/ \E id \in ModeIds : \E factory \in Factories : RegisterMode(id, factory)
  \/ \E id \in ModeIds : GetMode(id)

SpecRegistry == InitRegistry /\ [][NextRegistry]_vars

\* ------------------------------------------------------------------------
\* SpecBlender: new ModeBlender on a list of registered modes
\* ------------------------------------------------------------------------

\* The category and confidenceTag of five of the registered modes; every
\* other mode has the tags of one of these
ComponentModes ==
  { [id |-> "pure-statistical", category |-> "research",
     confidenceTag |-> "statistically-validated"],
    [id |-> "conference-strength", category |-> "research",
     confidenceTag |-> "experimental"],
    [id |-> "fatigue", category |-> "hybrid", confidenceTag |-> "experimental"],
    [id |-> "upset-chaos", category |-> "entertainment", confidenceTag |-> "experimental"],
    [id |-> "cinderella", category |-> "entertainment", confidenceTag |-> "whimsical"] }

InitBlender ==
  /\ teams = <<>>
  /\ mode = PureStatisticalMode
  /\ trackerStates = <<>>
  /\ baseBracket = <<>>
  /\ lockedSlots = {}
  /\ adjusted = Undefined
  /\ pendingCompleted = Undefined
  /\ completedAdjusted = Undefined
  /\ SimIdle
  /\ RestIdle

ConstructBlender(components) ==
  /\ ~IsSet(modeBlender)
  /\ modeBlender' = <<NewModeBlender(components)>>
  /\ UNCHANGED <<teams, mode, liveVars, simVars, driverVars, registryVars, adjustCall, aggregated, lateVars>>

NextBlender ==
  \E n \in 1..MaxComponents : \E modes \in [1..n -> ComponentModes] :
    ConstructBlender([i \in 1..n |-> [mode |-> modes[i], weight |-> 1]])

SpecBlender == InitBlender /\ [][NextBlender]_vars

\* ------------------------------------------------------------------------
\* SpecAdjust: adjustProbability of every registered mode, on probabilities
\* of [0, 1], seeds 1, 8 and 16 and teams with and without coaching and
\* mascot data
\* ------------------------------------------------------------------------

\* The optional profiles of a team: none, a weak one, a strong one
Profiles ==
  { [coaching |-> Undefined, mascot |-> Undefined],
    [coaching |-> <<[tournamentWins |-> 0, tournamentLosses |-> 0,
                     finalFourAppearances |-> 0, championships |-> 0,
                     yearsExperience |-> 0, seedOverperformance |-> -2]>>,
     mascot |-> <<[combatRating |-> 1, size |-> "tiny", type |-> "object",
                   flightCapable |-> FALSE, intimidationFactor |-> 1]>>],
    [coaching |-> <<[tournamentWins |-> 100, tournamentLosses |-> 20,
                     finalFourAppearances |-> 12, championships |-> 5,
                     yearsExperience |-> 40, seedOverperformance |-> 2]>>,
     mascot |-> <<[combatRating |-> 100, size |-> "massive", type |-> "mythical",
                   flightCapable |-> TRUE, intimidationFactor |-> 10]>>] }

ProbeTeams ==
  { [id |-> <<"east", seed>>, seed |-> seed, region |-> "east",
     adjOE16 |-> MockTeam("east", seed).adjOE16,
     coaching |-> p.coaching, mascot |-> p.mascot]
    : seed \in {1, TEAMS_PER_REGION \div 2, TEAMS_PER_REGION}, p \in Profiles }

\* Base probabilities: 0, 0.01, 0.5, 0.65, 0.99, 1
BaseProbabilities == {0, Pct(1), Pct(50), Pct(65), Pct(99), FX}

\* What a mode of ClampBounds computes before it clamps
OpenValues == {<<v>> : v \in {-2 * FX, -1, 0, FX \div 2, FX + 1, 3 * FX}}

RegisteredModeIds ==
  {"pure-statistical", "cinderella", "upset-chaos", "chaos-ladder", "coaching",
   "mascot-fight"} \cup DOMAIN ClampBounds

InitAdjust ==
  /\ teams = <<>>
  /\ mode = PureStatisticalMode
  /\ trackerStates = <<>>
  /\ baseBracket = <<>>
  /\ lockedSlots = {}
  /\ adjusted = Undefined
  /\ pendingCompleted = Undefined
  /\ completedAdjusted = Undefined
  /\ SimIdle
  /\ RestIdle

AdjustProbability(modeId, baseProbability, team1, team2, context, clamped) ==
  /\ adjustCall' = <<[modeId |-> modeId, baseProbability |-> baseProbability,
                      team1 |-> team1, team2 |-> team2, context |-> context,
                      result |-> ModeAdjust(modeId, baseProbability, team1, team2,
                                            context, clamped)]>>
  /\ UNCHANGED <<teams, mode, liveVars, simVars, driverVars, registryVars, modeBlender, aggregated, lateVars>>

NextAdjust ==
  /\ ~IsSet(adjustCall)
  /\ \E modeId \in RegisteredModeIds, baseProbability \in BaseProbabilities,
        team1 \in ProbeTeams, team2 \in ProbeTeams,
        round \in {"round-of-64", "championship"},
        clamped \in OpenValues \cup {Undefined} :
       /\ modeId \in DOMAIN ClampBounds =>
            /\ team1.seed = 1 /\ team2.seed = TEAMS_PER_REGION
            /\ ~IsSet(team1.coaching) /\ ~IsSet(team2.coaching)
            /\ round = "round-of-64"
            /\ IsSet(clamped) \/ modeId = "seed-killer"
       /\ modeId \notin DOMAIN ClampBounds => ~IsSet(clamped)
       /\ AdjustProbability(modeId, baseProbability, team1, team2,
                            [round |-> round, region |-> "east",
                             gamesPlayedByTeam1 |-> 0, gamesPlayedByTeam2 |-> 0],
                            clamped)

SpecAdjust == InitAdjust /\ [][NextAdjust]_vars

\* ------------------------------------------------------------------------
\* SpecAggregate: aggregateBracketResults on a roster of three seeds in every
\* order, with every vector of championship counts
\* ------------------------------------------------------------------------

\* The teams of the rosters: east seeds 1, 2 and 3
AggregateTeams == {MockTeam("east", seed) : seed \in 1..3}

\* The rosters: the teams in every order
AggregateRosters ==
  {roster \in [1..Cardinality(AggregateTeams) -> AggregateTeams] :
     \A i, j \in DOMAIN roster : roster[i] = roster[j] => i = j}

InitAggregate ==
  /\ teams \in AggregateRosters
  /\ mode = PureStatisticalMode
  /\ trackerStates = <<>>
  /\ baseBracket = <<>>
  /\ lockedSlots = {}
  /\ adjusted = Undefined
  /\ pendingCompleted = Undefined
  /\ completedAdjusted = Undefined
  /\ SimIdle
  /\ RestIdle

\* aggregateBracketResults(simResult, teams, ..) on a result of
\* simulateFullBracket or mergeResults: the keys of championshipCounts were
\* inserted in roster order
AggregateBracketResults(counts) ==
  /\ ~IsSet(aggregated)
  /\ \E entries \in {[i \in 1..Len(teams) |-> <<teams[i].id, counts[teams[i].id]>>]} :
       aggregated' = <<[entries |-> entries,
                        result |-> aggregateBracketResults(entries, teams)]>>
  /\ UNCHANGED <<teams, mode, liveVars, simVars, driverVars, registryVars, modeBlender, adjustCall, lateVars>>

NextAggregate ==
  \E counts \in [TeamIds(teams) -> 0..MaxChampCount] : AggregateBracketResults(counts)

SpecAggregate == InitAggregate /\ [][NextAggregate]_vars

\* ------------------------------------------------------------------------
\* SpecTracker: a GameStateTracker fed the states of two games, in any
\* order and with any timestamps; no listener is on the event bus
\* ------------------------------------------------------------------------

\* A reported state with its lastUpdated
Stamped(state, lastUpdated) ==
  [gameId |-> state.gameId, homeTeamId |-> state.homeTeamId,
   awayTeamId |-> state.awayTeamId, status |-> state.status,
   homeScore |-> state.homeScore, awayScore |-> state.awayScore,
   period |-> state.period, timeRemainingSeconds |-> state.timeRemainingSeconds,
   lastUpdated |-> lastUpdated]

TrackedGames == {"g1", "g2"}

InitTracker ==
  /\ teams = generateMockTeams
  /\ mode = PureStatisticalMode
  /\ trackerStates = <<>>
  /\ baseBracket = <<>>
  /\ lockedSlots = {}
  /\ adjusted = Undefined
  /\ pendingCompleted = Undefined
  /\ completedAdjusted = Undefined
  /\ SimIdle
  /\ RestIdle

\* tracker.updateState(newState)
TrackerUpdateState(newState) ==
  /\ trackerStates' = updateState(trackerStates, newState).states
  /\ trackerCall' = <<[newState |-> newState,
                       before |-> trackerStates,
                       returned |-> updateStateReturns(trackerStates, newState),
                       emitted |-> updateStateEmits(trackerStates, newState)]>>
  /\ UNCHANGED <<teams, mode, baseBracket, lockedSlots, adjusted, pendingCompleted,
                 completedAdjusted, simVars, driverVars, registryVars, modeBlender,
                 adjustCall, aggregated, probabilityCall, loop>>

NextTracker ==
  \E g \in TrackedGames : \E state \in FeedStates(g) : \E lastUpdated \in 0..MaxStamp :
    TrackerUpdateState(Stamped(state, lastUpdated))

SpecTracker == InitTracker /\ [][NextTracker]_vars

\* ------------------------------------------------------------------------
\* SpecProbability: applySeedGapAdjustment and computeBaseWinProbability on
\* probabilities of [0, 1], the seeds of a region and the mock teams
\* ------------------------------------------------------------------------

\* seedGapSensitivity and metric weights, in hundredths
Sensitivities == {0, 50, 100, 200}
WeightMaps == {[adjOffensiveEfficiency |-> w] : w \in {0, 30, 100, 200}}

\* Probabilities: 0, 1/1024, 0.25, 0.5, 0.9, 1
SeedGapProbabilities == {0, 1, FX \div 4, FX \div 2, Pct(90), FX}

InitProbability ==
  /\ teams = generateMockTeams
  /\ mode = PureStatisticalMode
  /\ trackerStates = <<>>
  /\ baseBracket = <<>>
  /\ lockedSlots = {}
  /\ adjusted = Undefined
  /\ pendingCompleted = Undefined
  /\ completedAdjusted = Undefined
  /\ SimIdle
  /\ RestIdle

\* applySeedGapAdjustment(baseProbability, team1Seed, team2Seed, seedGapSensitivity)
ApplySeedGapAdjustment(baseProbability, team1Seed, team2Seed, seedGapSensitivity) ==
  /\ probabilityCall' =
       <<[op |-> "applySeedGapAdjustment", baseProbability |-> baseProbability,
          team1Seed |-> team1Seed, team2Seed |-> team2Seed,
          seedGapSensitivity |-> seedGapSensitivity,
          result |-> applySeedGapAdjustment(baseProbability, team1Seed, team2Seed,
                                            seedGapSensitivity)]>>
  /\ UNCHANGED <<teams, mode, liveVars, simVars, driverVars, registryVars, modeBlender,
                 adjustCall, aggregated, trackerCall, loop>>

\* computeBaseWinProbability(team1, team2, weights) and, with the teams
\* swapped, computeBaseWinProbability(team2, team1, weights)
ComputeBaseWinProbability(team1, team2, weights) ==
  /\ probabilityCall' =
       <<[op |-> "computeBaseWinProbability", team1 |-> team1, team2 |-> team2,
          weights |-> weights,
          result |-> computeBaseWinProbability(team1, team2, weights),
          swapped |-> computeBaseWinProbability(team2, team1, weights)]>>
  /\ UNCHANGED <<teams, mode, liveVars, simVars, driverVars, registryVars, modeBlender,
                 adjustCall, aggregated, trackerCall, loop>>

NextProbability ==
  /\ ~IsSet(probabilityCall)
  /\ \/ \E baseProbability \in SeedGapProbabilities, seedGapSensitivity \in Sensitivities,
           team1Seed \in 1..TEAMS_PER_REGION, team2Seed \in 1..TEAMS_PER_REGION :
          ApplySeedGapAdjustment(baseProbability, team1Seed, team2Seed, seedGapSensitivity)
     \/ \E i \in 1..Len(teams), j \in 1..Len(teams), weights \in WeightMaps :
          /\ teams[i].region = "east"
          /\ teams[j].region \in {"east", "west"}
          /\ ComputeBaseWinProbability(teams[i], teams[j], weights)

SpecProbability == InitProbability /\ [][NextProbability]_vars

\* ------------------------------------------------------------------------
\* SpecLoop: the scheduling of a RealTimeLoop under events, timers, throwing
\* simulations, start() and stop().  SpecLoopFair adds that a handler that
\* has started runs on and that a pending timer fires.
\* ------------------------------------------------------------------------
InitLoop ==
  /\ teams = generateMockTeams
  /\ mode = PureStatisticalMode
  /\ trackerStates = <<>>
  /\ baseBracket = <<>>
  /\ lockedSlots = {}
  /\ adjusted = Undefined
  /\ pendingCompleted = Undefined
  /\ completedAdjusted = Undefined
  /\ SimIdle
  /\ DriverIdle
  /\ RegistryIdle
  /\ modeBlender = Undefined
  /\ adjustCall = Undefined
  /\ aggregated = Undefined
  /\ trackerCall = Undefined
  /\ probabilityCall = Undefined
  /\ loop = NewRealTimeLoop

LoopFrame ==
  UNCHANGED <<teams, mode, liveVars, simVars, driverVars, registryVars, modeBlender,
              adjustCall, aggregated, trackerCall, probabilityCall>>

\* loop.start(), between two handlers
Start ==
  /\ loop.at = "idle"
  /\ ~loop.isRunning
  /\ loop' = start(loop)
  /\ LoopFrame

\* loop.stop(), between two handlers
Stop ==
  /\ loop.at = "idle"
  /\ loop.isRunning
  /\ loop.stops < MaxStops
  /\ loop' = stop(loop)
  /\ LoopFrame

\* The tracker emits 'game-state-changed' or 'game-completed' and a listener
\* of the loop is called: between two handlers, or from inside broadcastFn
EventArrives ==
  /\ loop.isRunning
  /\ loop.at \in {"idle", "broadcast1", "broadcast2"}
  /\ loop.heard < MaxEvents
  /\ loop' = onEvent(loop)
  /\ LoopFrame

\* blend, runBracketSimulationSync and generateReport return; broadcastFn is
\* called with the simulation update
SimulationReturns ==
  /\ loop.at = "simulate"
  /\ loop' = [loop EXCEPT !.at = "broadcast1", !.broadcasts = @ + 1]
  /\ LoopFrame

\* one of them throws: control goes to catch and finally
SimulationThrows ==
  /\ loop.at = "simulate"
  /\ loop.thrown < MaxThrows
  /\ loop' = [loop EXCEPT !.at = "finally", !.thrown = @ + 1]
  /\ LoopFrame

\* broadcastFn returns: the second call of broadcastFn, or the end of the try
\* block
BroadcastReturns ==
  /\ loop.at \in {"broadcast1", "broadcast2"}
  /\ loop' = IF loop.at = "broadcast1"
             THEN [loop EXCEPT !.at = "broadcast2", !.broadcasts = @ + 1]
             ELSE [loop EXCEPT !.at = "finally", !.completedSnapshot = loop.snapshot]
  /\ LoopFrame

\* broadcastFn throws
BroadcastThrows ==
  /\ loop.at \in {"broadcast1", "broadcast2"}
  /\ loop.thrown < MaxThrows
  /\ loop' = [loop EXCEPT !.at = "finally", !.thrown = @ + 1]
  /\ LoopFrame

\* the finally block
Finally ==
  /\ loop.at = "finally"
  /\ loop' = runSimulationFinally(loop)
  /\ LoopFrame

\* a callback of setTimeout(() => this.runSimulation(), 50) runs
TimerFires ==
  /\ loop.at = "idle"
  /\ loop.timers > 0
  /\ loop' = runSimulationEnter([loop EXCEPT !.timers = @ - 1])
  /\ LoopFrame

NextLoop ==
  \/ Start
  \/ Stop
  \/ EventArrives
  \/ SimulationReturns
  \/ SimulationThrows
  \/ BroadcastReturns
  \/ BroadcastThrows
  \/ Finally
  \/ TimerFires

SpecLoop == InitLoop /\ [][NextLoop]_vars

\* A handler that has been entered runs to its end, and the timers of the
\* event loop fire
SpecLoopFair ==
  /\ SpecLoop
  /\ WF_vars(SimulationReturns \/ SimulationThrows)
  /\ WF_vars(BroadcastReturns \/ BroadcastThrows)
  /\ WF_vars(Finally)
  /\ WF_vars(TimerFires)

\* ------------------------------------------------------------------------
\* Properties of the scheduling of a RealTimeLoop (SpecLoop, SpecLoopFair)
\* ------------------------------------------------------------------------

\* C26: when events arrive while a simulation is in progress or while a
\* follow-up is already scheduled, exactly one follow-up simulation is run
\* after the current one finishes: once a follow-up has been scheduled, at
\* most one simulation starts, and when no timer is pending any more exactly
\* one has started.
C26_ExactlyOneFollowUp ==
  IsSet(loop.sinceScheduled) =>
    /\ loop.sinceScheduled[1] <= 1
    /\ loop.timers <= 1
    /\ (loop.timers = 0 /\ loop.at = "idle") => loop.sinceScheduled[1] = 1

\* C28: while the loop is running, every event its listeners are called with
\* is eventually followed by a simulation that took its snapshot after the
\* event and ran to its end.
C28_EveryEventIsSimulated ==
  \A k \in 1..MaxEvents :
    (loop.heard >= k) ~> (loop.completedSnapshot >= k \/ ~loop.isRunning)

\* C29: after stop() has returned, and until start() is called again, the
\* loop starts no simulation and does not call broadcastFn.
C29_NothingAfterStop ==
  (~loop.isRunning /\ IsSet(loop.stopped)) =>
    /\ loop.started = loop.stopped[1].started
    /\ loop.broadcasts = loop.stopped[1].broadcasts

\* ------------------------------------------------------------------------
\* Properties of buildBracket (SpecBuild)
\* ------------------------------------------------------------------------
RoundIndex(round) == CHOOSE i \in 1..Len(ROUNDS_IN_ORDER) : ROUNDS_IN_ORDER[i] = round

SlotsWithId(slots, slotId) == {i \in 1..Len(slots) : slots[i].slotId = slotId}

SlotById(slots, slotId) == slots[CHOOSE i \in SlotsWithId(slots, slotId) : TRUE]

\* Following nextSlotId from slot i arrives at 'championship' within fuel steps
RECURSIVE ReachesChampionship(_, _, _)
ReachesChampionship(slots, i, fuel) ==
  IF slots[i].slotId = <<"championship">> THEN TRUE
  ELSE IF fuel = 0 \/ ~IsSet(slots[i].nextSlotId) THEN FALSE
  ELSE IF SlotsWithId(slots, slots[i].nextSlotId) = {} THEN FALSE
  ELSE ReachesChampionship(
         slots, CHOOSE j \in SlotsWithId(slots, slots[i].nextSlotId) : TRUE, fuel - 1)

\* C7: the bracket buildBracket returns for a roster of 4 regions x 16 seeds
\* has exactly 63 slots with pairwise distinct slotIds; every slot except
\* 'championship' has a nextSlotId naming an existing slot of the next round;
\* every slot that is not round-of-64 is the nextSlotId of exactly two slots;
\* following nextSlotId from any slot reaches 'championship'.
C7_BracketIsBinaryTree ==
  baseBracket # <<>> =>
    /\ Len(baseBracket) = 63
    /\ \A i, j \in 1..Len(baseBracket) :
         baseBracket[i].slotId = baseBracket[j].slotId => i = j
    /\ \A i \in 1..Len(baseBracket) :
         baseBracket[i].slotId # <<"championship">> =>
           /\ IsSet(baseBracket[i].nextSlotId)
           /\ \E j \in 1..Len(baseBracket) :
                /\ baseBracket[j].slotId = baseBracket[i].nextSlotId
                /\ RoundIndex(baseBracket[j].round) = RoundIndex(baseBracket[i].round) + 1
    /\ \A j \in 1..Len(baseBracket) :
         baseBracket[j].round # "round-of-64" =>
           Cardinality({i \in 1..Len(baseBracket) :
                          baseBracket[i].nextSlotId = baseBracket[j].slotId}) = 2
    /\ \A i \in 1..Len(baseBracket) :
         ReachesChampionship(baseBracket, i, Len(baseBracket))

\* buildBracket has returned, for a roster listed in another order than the
\* mock roster's
C7_Witness ==
  /\ Len(baseBracket) = 63
  /\ teams # generateMockTeams
  /\ \E i \in 1..Len(baseBracket) : baseBracket[i].slotId = <<"championship">>

SeedOf(id) == teamMapGet(teams, id)[1].seed
RegionOf(id) == teamMapGet(teams, id)[1].region

\* C8: in the bracket buildBracket returns, round-of-64 game g of each region
\* pairs seeds (1,16),(8,9),(5,12),(4,13),(6,11),(3,14),(7,10),(2,15) in that
\* order and feeds round-of-32 game ceil(g/2) of the region; round-of-32 game
\* g feeds sweet-sixteen game ceil(g/2); both sweet-sixteen games feed the
\* region's elite-eight game; East and West feed ff-g1, South and Midwest
\* feed ff-g2; both Final Four games feed 'championship'.
C8_SeedPairingsAndFeeds ==
  baseBracket # <<>> =>
    LET pairs == << <<1, 16>>, <<8, 9>>, <<5, 12>>, <<4, 13>>,
                    <<6, 11>>, <<3, 14>>, <<7, 10>>, <<2, 15>> >>
        at(id) == SlotById(baseBracket, id)
    IN /\ \A region \in {"east", "west", "south", "midwest"} :
            /\ \A g \in 1..8 :
                 LET s == at(<<region, "r1", GameTok(g)>>)
                 IN /\ s.round = "round-of-64"
                    /\ IsSet(s.team1Id) /\ IsSet(s.team2Id)
                    /\ SeedOf(s.team1Id) = pairs[g][1] /\ RegionOf(s.team1Id) = region
                    /\ SeedOf(s.team2Id) = pairs[g][2] /\ RegionOf(s.team2Id) = region
                    /\ s.nextSlotId = <<region, "r2", GameTok((g + 1) \div 2)>>
            /\ \A g \in 1..4 :
                 /\ at(<<region, "r2", GameTok(g)>>).round = "round-of-32"
                 /\ at(<<region, "r2", GameTok(g)>>).nextSlotId =
                      <<region, "r3", GameTok((g + 1) \div 2)>>
            /\ \A g \in 1..2 :
                 /\ at(<<region, "r3", GameTok(g)>>).round = "sweet-sixteen"
                 /\ at(<<region, "r3", GameTok(g)>>).nextSlotId = <<region, "r4", "g1">>
            /\ at(<<region, "r4", "g1">>).round = "elite-eight"
       /\ at(<<"east", "r4", "g1">>).nextSlotId = <<"ff", "g1">>
       /\ at(<<"west", "r4", "g1">>).nextSlotId = <<"ff", "g1">>
       /\ at(<<"south", "r4", "g1">>).nextSlotId = <<"ff", "g2">>
       /\ at(<<"midwest", "r4", "g1">>).nextSlotId = <<"ff", "g2">>
       /\ at(<<"ff", "g1">>).nextSlotId = <<"championship">>
       /\ at(<<"ff", "g2">>).nextSlotId = <<"championship">>

\* buildBracket has returned for a roster that lists the Midwest first, and
\* the 8 v 9 game of the East is there
C8_Witness ==
  /\ baseBracket # <<>>
  /\ teams[1].region = "midwest"
  /\ \E i \in 1..Len(baseBracket) :
       /\ baseBracket[i].slotId = <<"east", "r1", "g2">>
       /\ baseBracket[i].team1Id = <<"east", 8>>

\* ------------------------------------------------------------------------
\* Properties of the live-state blender (SpecLive)
\* ------------------------------------------------------------------------
ListedIn(seq, e) == \E k \in 1..Len(seq) : seq[k] = e

\* The tracked games whose {home, away} is the slot's {team1, team2}
MatchingGames(slot) ==
  {k \in 1..Len(trackerStates) :
     /\ IsSet(slot.team1Id) /\ IsSet(slot.team2Id)
     /\ {trackerStates[k].homeTeamId, trackerStates[k].awayTeamId} =
          {slot.team1Id, slot.team2Id}}

\* C9: what blend returns for each unlocked slot.  A matching game that is
\* final: winnerId is the team with the higher score and the slot id is in
\* completedGameSlots.  In-progress or halftime: the game is attached and
\* the slot id is in activeGameSlots.  Pre-game: the game is attached and the
\* slot is in neither list.  No matching game: the slot is returned as it is
\* and is in neither list.
C9_BlendPerSlot ==
  IsSet(adjusted) =>
    \A i \in 1..Len(baseBracket) :
      LET base == baseBracket[i]
          out == adjusted[1].bracket[i]
          active == ListedIn(adjusted[1].activeGameSlots, base.slotId)
          completed == ListedIn(adjusted[1].completedGameSlots, base.slotId)
      IN base.slotId \notin lockedSlots =>
           /\ MatchingGames(base) = {} => out = base /\ ~active /\ ~completed
           /\ \A k \in MatchingGames(base) :
                LET g == trackerStates[k]
                IN /\ g.status = "final" =>
                        /\ g.homeScore > g.awayScore => out.winnerId = g.homeTeamId
                        /\ g.awayScore > g.homeScore => out.winnerId = g.awayTeamId
                        /\ completed
                   /\ g.status \in {"in-progress", "halftime"} =>
                        out.liveGame = <<g>> /\ active /\ ~completed
                   /\ g.status = "pre-game" =>
                        out.liveGame = <<g>> /\ ~active /\ ~completed

\* A blend over a final game won by the away team, a game at halftime, and a
\* tracked game that no slot holds
C9_Witness ==
  /\ IsSet(adjusted)
  /\ lockedSlots = {}
  /\ ListedIn(adjusted[1].completedGameSlots, <<"east", "r1", "g1">>)
  /\ SlotById(adjusted[1].bracket, <<"east", "r1", "g1">>).winnerId = <<"east", 16>>
  /\ ListedIn(adjusted[1].activeGameSlots, <<"east", "r1", "g2">>)
  /\ \E k \in 1..Len(trackerStates) :
       /\ trackerStates[k].gameId = "g3"
       /\ \A i \in 1..Len(baseBracket) : k \notin MatchingGames(baseBracket[i])

\* C10: blend is pure and idempotent.  A step of the loop that only blends
\* (every step but the one that locks) leaves the base bracket's slots and
\* the locked-slot set as they are, and the blend that opens onGameCompleted,
\* made on the snapshot runSimulation has just blended with no lockResult in
\* between, returns the same slots, activeGameSlots and completedGameSlots.
C10_BlendPureIdempotent ==
  [][ ~IsSet(completedAdjusted) =>
        /\ baseBracket' = baseBracket
        /\ lockedSlots' = lockedSlots
        /\ IsSet(completedAdjusted') =>
             /\ trackerStates' = trackerStates
             /\ completedAdjusted' = adjusted ]_vars

\* onGameCompleted has blended again, a final game in hand and a slot
\* already locked
C10_Witness ==
  /\ IsSet(completedAdjusted)
  /\ lockedSlots # {}
  /\ \E i \in 1..Len(baseBracket) :
       /\ baseBracket[i].slotId \notin lockedSlots
       /\ ListedIn(completedAdjusted[1].completedGameSlots, baseBracket[i].slotId)

\* C4: once lockResult(slotId, winnerId) has been called, the slot keeps
\* that winner: through every later step (blends over any snapshot, locks of
\* other slots) the base slot's winnerId stays the locked winner, every
\* blend returns the slot with that winnerId, and in the returned bracket the
\* slot named by its nextSlotId holds the locked winner as team1Id or team2Id.
C4_LockedWinnerPersists ==
  [][ \A i \in 1..Len(baseBracket) :
        baseBracket[i].slotId \in lockedSlots' =>
          LET lockedWinner == IF baseBracket[i].slotId \in lockedSlots
                              THEN baseBracket[i].winnerId
                              ELSE pendingCompleted[1].winnerId
          IN /\ IsSet(lockedWinner)
             /\ baseBracket'[i].winnerId = lockedWinner
             /\ IsSet(adjusted') =>
                  /\ adjusted'[1].bracket[i].winnerId = lockedWinner
                  /\ IsSet(baseBracket[i].nextSlotId) =>
                       lockedWinner \in
                         { SlotById(adjusted'[1].bracket, baseBracket[i].nextSlotId).team1Id,
                           SlotById(adjusted'[1].bracket, baseBracket[i].nextSlotId).team2Id }
    ]_vars

\* Three slots are locked, the round-of-32 slot fed by the other two among
\* them, and the tracker has moved on since
C4_Witness ==
  /\ {<<"east", "r1", "g1">>, <<"east", "r1", "g2">>, <<"east", "r2", "g1">>} \subseteq lockedSlots
  /\ IsSet(adjusted)
  /\ ~IsSet(pendingCompleted)
  /\ SlotById(adjusted[1].bracket, <<"east", "r3", "g1">>).team1Id = <<"east", 9>>

\* The two feeders of slot j, by position in the bracket
Feeders(slots, j) == {i \in 1..Len(slots) : slots[i].nextSlotId = slots[j].slotId}

\* C5: when a winner is advanced into a next slot T, the winner of T's
\* lower-indexed feeder is T.team1Id and the winner of T's higher-indexed
\* feeder is T.team2Id, in whatever order the two results are recorded.
\* Stated of the blender's base bracket, where lockResult advances winners.
C5_FeederPositions ==
  \A j \in 1..Len(baseBracket) :
    \A lo, hi \in Feeders(baseBracket, j) :
      lo < hi =>
        /\ IsSet(baseBracket[lo].winnerId) => baseBracket[j].team1Id = baseBracket[lo].winnerId
        /\ IsSet(baseBracket[hi].winnerId) => baseBracket[j].team2Id = baseBracket[hi].winnerId

\* ------------------------------------------------------------------------
\* Properties of simulateFullBracket (Spec, SpecRepeat)
\* ------------------------------------------------------------------------
RECURSIVE SumOver(_, _)
SumOver(f, ids) ==
  IF ids = {} THEN 0
  ELSE LET id == CHOOSE x \in ids : TRUE IN f[id] + SumOver(f, ids \ {id})

\* C1: whatever bracket the propagator was given (fresh, returned by blend,
\* with winners already set), every run ends with a winner on the
\* championship slot, so the championshipCounts of a returned result sum to
\* its totalSims.
C1_ChampionshipCountsSumToN ==
  /\ (pc = "loop" /\ sim > 0) => IsSet(getChampion(run.slots))
  /\ \A k \in 1..Len(returned) :
       SumOver(returned[k].result.championshipCounts,
               DOMAIN returned[k].result.championshipCounts)
         = returned[k].result.totalSims

\* C2: in a returned result, for every team and every two adjacent rounds
\* r1 < r2 of ROUNDS_IN_ORDER, roundCounts[t][r1] >= roundCounts[t][r2].
C2_RoundCountsMonotone ==
  \A k \in 1..Len(returned) :
    \A t \in DOMAIN returned[k].result.roundCounts :
      \A r \in 1..(Len(ROUNDS_IN_ORDER) - 1) :
        returned[k].result.roundCounts[t][ROUNDS_IN_ORDER[r]]
          >= returned[k].result.roundCounts[t][ROUNDS_IN_ORDER[r + 1]]

\* C6: for a mode that implements initializeSimState, every run starts from
\* a freshly initialised state: when the first game of a run is about to be
\* played, the state handed to the mode's hooks is the one initializeSimState
\* returns, with no trace of an earlier run's onGameComplete.
C6_FreshModeStatePerRun ==
  (mode.hasSimState /\ pc = "games" /\ roundIdx = 1 /\ gameIdx = 1) =>
    run.modeState = initializeSimState(mode)

\* C3: two invocations that have returned, made with the same bracket,
\* simulation count and explicit baseSeed (teams and mode are the same
\* throughout), returned identical roundCounts and championshipCounts,
\* whatever the clock showed and whatever ran before them; and the ready
\* games of a round are listed in slot construction order.
C3_DeterministicWithBaseSeed ==
  /\ \A i, j \in 1..Len(returned) :
       ( /\ IsSet(returned[i].args.baseSeed)
         /\ returned[i].args.baseSeed = returned[j].args.baseSeed
         /\ returned[i].args.simulations = returned[j].args.simulations
         /\ returned[i].args.bracket = returned[j].args.bracket )
       => returned[i].result = returned[j].result
  /\ \A a, b \in 1..Len(games) : a < b => games[a] < games[b]

\* Two invocations with the same explicit baseSeed, of more than one run
\* each, called at different times, have returned
C3_Witness ==
  /\ Len(returned) = 2
  /\ IsSet(returned[1].args.baseSeed)
  /\ returned[1].args.baseSeed = returned[2].args.baseSeed
  /\ returned[1].args.simulations = returned[2].args.simulations
  /\ returned[1].args.simulations > 1
  /\ returned[1].args.bracket = returned[2].args.bracket
  /\ returned[1].args.calledAt # returned[2].args.calledAt

\* ------------------------------------------------------------------------
\* Properties of simulateFullBracket on a partial roster (SpecPartial)
\* ------------------------------------------------------------------------

\* The ready game the loop is about to play has a team the roster lacks
AtUnknownTeamGame ==
  /\ pc = "games"
  /\ gameIdx <= Len(games)
  /\ \E id \in {run.slots[games[gameIdx]].team1Id, run.slots[games[gameIdx]].team2Id} :
       ~IsSet(teamMapGet(teams, id))

\* The round-of-64 slot of the bracket that holds team id
FirstSlotOf(slots, id) ==
  CHOOSE i \in 1..Len(slots) :
    slots[i].round = "round-of-64" /\ id \in {slots[i].team1Id, slots[i].team2Id}

\* C11: a ready game with a team absent from the roster is skipped: the step
\* over it changes no round-reach count, sets no winner, raises nothing and
\* moves on to the next game; and the other games of the run and the later
\* runs are played: in every returned result each team whose round-of-64
\* opponent is on the roster reached round-of-64 in all totalSims runs, while
\* the opponent of the absent team reached no round.
C11_UnknownTeamGameSkipped ==
  /\ [][AtUnknownTeamGame =>
          /\ run' = run
          /\ championshipCounts' = championshipCounts
          /\ pc' = "games"
          /\ gameIdx' = gameIdx + 1]_vars
  /\ [](\A k \in 1..Len(returned) :
          LET res == returned[k].result
              slots == returned[k].args.bracket
          IN \A id \in TeamIds(teams) :
               LET s == slots[FirstSlotOf(slots, id)]
               IN IF IsSet(teamMapGet(teams, s.team1Id)) /\ IsSet(teamMapGet(teams, s.team2Id))
                  THEN res.roundCounts[id]["round-of-64"] = res.totalSims
                  ELSE \A r \in RoundSet : res.roundCounts[id][r] = 0)

\* Two runs have returned on a roster that lacks a team of the bracket, and
\* the last game stepped over in the second run was a game of that team
C11_Witness ==
  /\ Len(returned) = 1
  /\ returned[1].result.totalSims = 2
  /\ \E i \in 1..Len(run.slots) :
       /\ IsReady(run.slots[i])
       /\ \E id \in {run.slots[i].team1Id, run.slots[i].team2Id} :
            ~IsSet(teamMapGet(teams, id))
  /\ \E id \in TeamIds(teams) : returned[1].result.roundCounts[id]["round-of-32"] = 2

\* ------------------------------------------------------------------------
\* Properties of construction on invalid input (SpecInvalid)
\* ------------------------------------------------------------------------

\* Every region of the roster holds exactly the seeds 1..16, each once
ValidRoster(roster) ==
  \A r \in 1..Len(REGIONS) : \A seed \in 1..TEAMS_PER_REGION :
    Cardinality({i \in 1..Len(roster) :
                   roster[i].region = REGIONS[r] /\ roster[i].seed = seed}) = 1

\* No slotId twice, every feeder present, no cycle
WellFormedSlots(slots) ==
  /\ \A i, j \in 1..Len(slots) : slots[i].slotId = slots[j].slotId => i = j
  /\ \A j \in 1..Len(slots) :
       slots[j].round # "round-of-64" =>
         Cardinality({i \in 1..Len(slots) : slots[i].nextSlotId = slots[j].slotId}) = 2
  /\ \A i \in 1..Len(slots) : ReachesChampionship(slots, i, Len(slots))

\* C12: construction on invalid input produces nothing: buildBracket returns
\* a bracket only for a roster whose regions each hold exactly the seeds
\* 1..16, and a BracketSimState exists only for a slot list without a
\* duplicate slotId, a cycle or a missing feeder.
C12_InvalidInputRejected ==
  /\ baseBracket # <<>> => ValidRoster(teams)
  /\ run.slots # <<>> => WellFormedSlots(run.slots)

\* ------------------------------------------------------------------------
\* Properties of runBracketSimulation and mergeResults (SpecDrive)
\* ------------------------------------------------------------------------

\* The sum of g(list[i]) over the list
RECURSIVE SumSeq(_, _, _)
SumSeq(list, g(_), i) == IF i > Len(list) THEN 0 ELSE g(list[i]) + SumSeq(list, g, i + 1)

\* C13: for every total N >= 0 and worker count W >= 1 the simulationCount
\* values of the dispatched tasks sum to exactly N, and the merged result's
\* totalSims is N.
C13_ChunksSumToTotal ==
  IsSet(driverArgs) =>
    /\ SumSeq(tasks, LAMBDA task : task.simulationCount, 1) = driverArgs[1].simCount
    /\ IsSet(merged) => merged[1].totalSims = driverArgs[1].simCount

\* A total that does not divide evenly has been split over three workers
\* and merged
C13_Witness ==
  /\ IsSet(driverArgs)
  /\ driverArgs[1].simCount = 4
  /\ driverArgs[1].workerCount = 3
  /\ Len(tasks) = 3
  /\ tasks[1].simulationCount = 2
  /\ IsSet(merged)
  /\ merged[1].totalSims = 4

\* The first and the last seed a worker's runs use: task.seed + sim for sim
\* in 0..simulationCount - 1
FirstRunSeed(task) == RunSeed(<<task.seed>>, 0, 0)
LastRunSeed(task) == RunSeed(<<task.seed>>, 0, task.simulationCount - 1)

\* C14: the per-run seeds of different workers are pairwise disjoint, for
\* every N and W: no seed task.seed + sim of one task is a seed of another.
C14_WorkerSeedsDisjoint ==
  \A k, l \in 1..Len(tasks) :
    k < l => \/ LastRunSeed(tasks[k]) < FirstRunSeed(tasks[l])
             \/ LastRunSeed(tasks[l]) < FirstRunSeed(tasks[k])

\* C15: mergeResults does not depend on the order or the grouping of the
\* results: merging any permutation of the list, or two groups merged on
\* their own and then together, gives the roundCounts, championshipCounts and
\* totalSims of the merge in task order, and these are the elementwise sums.
C15_MergeOrderIndependent ==
  /\ IsSet(merged) =>
       /\ merged[1].totalSims = SumSeq(Resolved, LAMBDA r : r.totalSims, 1)
       /\ Len(results) > 0 =>
            /\ DOMAIN merged[1].roundCounts = TeamIds(teams)
            /\ DOMAIN merged[1].championshipCounts = TeamIds(teams)
       /\ \A t \in DOMAIN merged[1].championshipCounts :
            merged[1].championshipCounts[t] =
              SumSeq(Resolved, LAMBDA r : r.championshipCounts[t], 1)
       /\ \A t \in DOMAIN merged[1].roundCounts : \A rd \in RoundSet :
            merged[1].roundCounts[t][rd] =
              SumSeq(Resolved, LAMBDA r : r.roundCounts[t][rd], 1)
  /\ IsSet(regrouped) =>
       /\ regrouped[1].result.totalSims = merged[1].totalSims
       /\ regrouped[1].result.roundCounts = merged[1].roundCounts
       /\ regrouped[1].result.championshipCounts = merged[1].championshipCounts

\* Three results with different champions have been merged in task order and
\* again with the first and the last exchanged
C15_Witness ==
  /\ Len(results) = 3
  /\ IsSet(merged)
  /\ IsSet(regrouped)
  /\ IsSet(regrouped[1].order)
  /\ regrouped[1].order[1] = 3
  /\ regrouped[1].order[3] = 1
  /\ Resolved[1].championshipCounts # Resolved[3].championshipCounts
  /\ Resolved[1].totalSims # Resolved[3].totalSims

\* ------------------------------------------------------------------------
\* Properties of the mode registry (SpecRegistry)
\* ------------------------------------------------------------------------

\* The ids registered, in order
RegisteredIds(registry) == [i \in 1..Len(registry) |-> registry[i][1]]

\* C16: registerMode on an id that is already registered throws an error
\* naming the id and leaves the registry as it was: the same ids, the id
\* still mapped to its first factory.
C16_DuplicateRegistrationThrows ==
  [][(/\ IsSet(registryCall')
      /\ registryCall'[1].op = "registerMode"
      /\ registryCall' # registryCall
      /\ RegistryHas(modeRegistry, registryCall'[1].id))
     => /\ IsSet(registryCall'[1].thrown)
        /\ \E k \in 1..Len(registryCall'[1].thrown) :
             registryCall'[1].thrown[k] = registryCall'[1].id
        /\ modeRegistry' = modeRegistry
        /\ RegistryGet(modeRegistry', registryCall'[1].id)
             = RegistryGet(modeRegistry, registryCall'[1].id)]_vars

\* A second registerMode of a registered id, with another factory, has thrown
C16_Witness ==
  /\ IsSet(registryCall)
  /\ registryCall[1].op = "registerMode"
  /\ IsSet(registryCall[1].thrown)
  /\ RegistryGet(modeRegistry, registryCall[1].id) # registryCall[1].factory
  /\ Len(modeRegistry) = 2

\* C17: getMode of an id that is not registered throws an error whose
\* message lists every registered id, returns no mode, and leaves the
\* registry as it was.
C17_UnknownModeThrows ==
  [][(/\ IsSet(registryCall')
      /\ registryCall'[1].op = "getMode"
      /\ registryCall' # registryCall
      /\ ~RegistryHas(modeRegistry, registryCall'[1].id))
     => /\ IsSet(registryCall'[1].thrown)
        /\ \A i \in 1..Len(modeRegistry) :
             \E k \in 1..Len(registryCall'[1].thrown) :
               registryCall'[1].thrown[k] = modeRegistry[i][1]
        /\ ~IsSet(registryCall'[1].value)
        /\ modeRegistry' = modeRegistry]_vars

\* getMode of an unregistered id has thrown while two ids were registered
C17_Witness ==
  /\ IsSet(registryCall)
  /\ registryCall[1].op = "getMode"
  /\ IsSet(registryCall[1].thrown)
  /\ Len(modeRegistry) = 2
  /\ ~RegistryHas(modeRegistry, registryCall[1].id)

\* ------------------------------------------------------------------------
\* Properties of ModeBlender (SpecBlender)
\* ------------------------------------------------------------------------

\* C18: a ModeBlender with a whimsical component is entertainment and
\* experimental; without one it is research when all components are
\* research and hybrid when not; and its confidenceTag is
\* statistically-validated when all components are statistically-validated,
\* experimental in every other case.
C18_BlenderClassification ==
  (IsSet(modeBlender) /\ IsSet(modeBlender[1].value)) =>
    LET b == modeBlender[1].value[1]
        n == Len(b.components)
        anyWhimsical == \E i \in 1..n : b.components[i].mode.confidenceTag = "whimsical"
        allResearch == \A i \in 1..n : b.components[i].mode.category = "research"
        allValidated ==
          \A i \in 1..n : b.components[i].mode.confidenceTag = "statistically-validated"
    IN /\ anyWhimsical => b.category = "entertainment" /\ b.confidenceTag = "experimental"
       /\ (~anyWhimsical /\ allResearch) => b.category = "research"
       /\ (~anyWhimsical /\ ~allResearch) => b.category = "hybrid"
       /\ b.confidenceTag =
            IF allValidated THEN "statistically-validated" ELSE "experimental"

\* ------------------------------------------------------------------------
\* Properties of the modes' adjustProbability (SpecAdjust)
\* ------------------------------------------------------------------------

\* C19: for every registered mode, every pair of teams (equal seeds, extreme
\* seed gaps, missing mascot or coaching data included), every context and
\* every base probability in [0, 1], adjustProbability returns a value in
\* [0, 1].
C19_AdjustedProbabilityInUnitInterval ==
  IsSet(adjustCall) => adjustCall[1].result >= 0 /\ adjustCall[1].result <= FX

\* cinderella was asked about a 16 seed against a 1 seed at base probability
\* 1, teams without profiles, and returned its upper clamp 0.98
C19_Witness ==
  /\ IsSet(adjustCall)
  /\ adjustCall[1].modeId = "cinderella"
  /\ adjustCall[1].baseProbability = FX
  /\ adjustCall[1].team1.seed = TEAMS_PER_REGION
  /\ adjustCall[1].team2.seed = 1
  /\ ~IsSet(adjustCall[1].team1.mascot)
  /\ ~IsSet(adjustCall[1].team2.coaching)
  /\ adjustCall[1].result = Pct(98)

\* ------------------------------------------------------------------------
\* Properties of aggregateBracketResults (SpecAggregate)
\* ------------------------------------------------------------------------

\* C20: when some team has a positive championship count,
\* aggregateBracketResults returns as mostLikelyChampion a team with the
\* maximum championship count, and among the teams sharing that maximum the
\* one with the lowest seed number, whatever the order of the roster and of
\* the keys of championshipCounts.
C20_ChampionTieGoesToLowestSeed ==
  IsSet(aggregated) =>
    LET entries == aggregated[1].entries
        champion == aggregated[1].result.mostLikelyChampion
        maxCount == CHOOSE c \in {entries[k][2] : k \in 1..Len(entries)} :
                      \A k \in 1..Len(entries) : entries[k][2] <= c
        tied == {entries[k][1] : k \in {j \in 1..Len(entries) : entries[j][2] = maxCount}}
    IN maxCount > 0 =>
         /\ champion \in tied
         /\ \A id \in tied : SeedOf(champion) <= SeedOf(id)

\* ------------------------------------------------------------------------
\* Properties of GameStateTracker.updateState (SpecTracker)
\* ------------------------------------------------------------------------

\* The events of one type a call emitted
EmittedOfType(call, type) == SelectSeq(call.emitted, LAMBDA e : e.type = type)

\* C21: whenever updateState records a state with status 'final' for a game
\* and the tracker did not hold a 'final' state for that game before (the
\* first state seen for the game included), exactly one 'game-completed'
\* event is emitted for the game, with winnerId = homeTeamId if
\* homeScore > awayScore and awayTeamId otherwise.
C21_FinalEmitsGameCompleted ==
  IsSet(trackerCall) =>
    LET call == trackerCall[1]
        newState == call.newState
        previous == TrackerGet(call.before, newState.gameId)
        recorded == TrackerGet(trackerStates, newState.gameId) = <<newState>>
        completed == EmittedOfType(call, "game-completed")
    IN (/\ recorded
        /\ trackerStates # call.before
        /\ newState.status = "final"
        /\ ~(IsSet(previous) /\ previous[1].status = "final"))
       => /\ Len(completed) = 1
          /\ completed[1].gameId = newState.gameId
          /\ completed[1].winnerId = IF newState.homeScore > newState.awayScore
                                     THEN newState.homeTeamId ELSE newState.awayTeamId

\* The state differs from the stored one in lastUpdated and in nothing else
OnlyStampDiffers(previous, newState) ==
  /\ previous.lastUpdated # newState.lastUpdated
  /\ [previous EXCEPT !.lastUpdated = newState.lastUpdated] = newState

\* C22: when updateState is called with a state for a tracked game that
\* differs from the stored state only in lastUpdated, it returns null, emits
\* no event, and leaves the stored state and the tracker's size unchanged.
C22_TimestampOnlyUpdateIgnored ==
  IsSet(trackerCall) =>
    LET call == trackerCall[1]
        previous == TrackerGet(call.before, call.newState.gameId)
    IN (IsSet(previous) /\ OnlyStampDiffers(previous[1], call.newState))
       => /\ ~IsSet(call.returned)
          /\ call.emitted = <<>>
          /\ TrackerGet(trackerStates, call.newState.gameId) = previous
          /\ trackerStates = call.before
          /\ Len(trackerStates) = Len(call.before)

\* g1 was tracked in progress, g2 was tracked too, and g1 was reported again
\* with a later lastUpdated and nothing else changed
C22_Witness ==
  /\ IsSet(trackerCall)
  /\ Len(trackerStates) = 2
  /\ trackerCall[1].newState.gameId = "g1"
  /\ trackerCall[1].newState.status = "in-progress"
  /\ trackerCall[1].newState.lastUpdated = 1
  /\ TrackerGet(trackerCall[1].before, "g1") = <<Stamped(LiveGame("g1", "in-progress", 30, 25, 1, 600), 0)>>
  /\ ~IsSet(trackerCall[1].returned)

\* ------------------------------------------------------------------------
\* Properties of the probability model (SpecProbability)
\* ------------------------------------------------------------------------

\* C23: applySeedGapAdjustment(p, seed1, seed2, sensitivity) returns exactly
\* p, for every p, whenever seed1 = seed2 (any sensitivity) or
\* sensitivity = 0 (any seeds).
C23_SeedGapIdentity ==
  (IsSet(probabilityCall) /\ probabilityCall[1].op = "applySeedGapAdjustment") =>
    LET call == probabilityCall[1]
    IN (call.team1Seed = call.team2Seed \/ call.seedGapSensitivity = 0)
       => call.result = call.baseProbability

\* equal seeds 8 and 8 at sensitivity 2.0 returned p = 0.25 as it was, where
\* the blend with the seed-implied 0.5 would have moved it
C23_Witness ==
  /\ IsSet(probabilityCall)
  /\ probabilityCall[1].op = "applySeedGapAdjustment"
  /\ probabilityCall[1].team1Seed = 8
  /\ probabilityCall[1].team2Seed = 8
  /\ probabilityCall[1].seedGapSensitivity = 200
  /\ probabilityCall[1].baseProbability = FX \div 4
  /\ probabilityCall[1].result = FX \div 4
  /\ applySeedGapAdjustment(FX \div 4, 8, 9, 200) # FX \div 4

\* The two teams of the call have the same metrics
SameMetrics(call) == call.team1.adjOE16 = call.team2.adjOE16

C25_InputBracketUntouched ==
  /\ pc # "idle" => args[1].bracket = InputBracket
  /\ (pc = "games" /\ roundIdx = 1 /\ gameIdx = 1)
       => run.slots = NewBracketSimState(InputBracket)
  /\ [][/\ pc' = "idle" /\ pc # "idle" => returned'[Len(returned')].args.bracket = InputBracket
        /\ (IsSet(args) /\ pc # "idle") => args' = args]_vars

\* the second run of an invocation has started on a bracket with a live
\* game attached, after the first run had set a champion
C25_Witness ==
  /\ pc = "games"
  /\ sim = 1
  /\ roundIdx > 1
  /\ \E i \in 1..Len(run.slots) : IsSet(run.slots[i].winnerId)
  /\ \E id \in DOMAIN championshipCounts : championshipCounts[id] = 1
  /\ \E i \in 1..Len(args[1].bracket) : IsSet(args[1].bracket[i].liveGame)
  /\ args[1].bracket = InputBracket

\* ------------------------------------------------------------------------
\* Properties of the brackets the loop simulates (SpecLive)
\* ------------------------------------------------------------------------

\* Every winner of the bracket that has a next slot is a team of that slot
ConsistentBracket(slots) ==
  \A i \in 1..Len(slots) :
    (IsSet(slots[i].winnerId) /\ IsSet(slots[i].nextSlotId)) =>
      \E n \in 1..Len(slots) :
        /\ slots[n].slotId = slots[i].nextSlotId
        /\ slots[i].winnerId \in {slots[n].team1Id, slots[n].team2Id}

\* C27: every bracket the RealTimeLoop hands to the simulator is consistent:
\* for every slot with winnerId set and a nextSlotId, that winner is team1Id
\* or team2Id of the next slot; no re-simulation runs on a bracket in which
\* a finished slot's winner has not been advanced.
C27_SimulatedBracketConsistent ==
  IsSet(adjusted) => ConsistentBracket(adjusted[1].bracket)

\* ------------------------------------------------------------------------
\* Properties of the round-reach counts (SpecRepeat)
\* ------------------------------------------------------------------------

\* The teams counted in the round with index i of ROUNDS_IN_ORDER in one run
\* over a full bracket: 64, 32, 16, 8, 4, 2
TeamsReaching(i) == Pow2(7 - i)

\* The sum over the roster of the counts of a round
CountedInRound(roundCounts, i) ==
  SumSeq(teams, LAMBDA t : roundCounts[t.id][ROUNDS_IN_ORDER[i]], 1)

\* The runs of the invocation that have walked round i to its end, and the
\* games of round i the running run has played
RunsThrough(i) ==
  IF pc = "games" /\ i < roundIdx THEN sim + 1 ELSE sim

GamesInto(i) ==
  IF pc = "games" /\ i = roundIdx THEN gameIdx - 1 ELSE 0

\* No team is in two slots of a round of the running run
OneSlotPerRound(slots) ==
  \A i \in 1..Len(slots) : \A j \in 1..Len(slots) :
    (i # j /\ slots[i].round = slots[j].round) =>
      \A id \in {slots[i].team1Id, slots[i].team2Id} :
        IsSet(id) => id \notin {slots[j].team1Id, slots[j].team2Id}

\* A game step counts the two teams of a game that had no winner yet, in the
\* round of the game, once each, and gives the game its winner
CountsGameOnce ==
  (pc = "games" /\ gameIdx' = gameIdx + 1) =>
    LET game == run.slots[games[gameIdx]]
    IN /\ ~IsSet(game.winnerId)
       /\ IsSet(run'.slots[games[gameIdx]].winnerId)
       /\ game.team1Id # game.team2Id
       /\ \A id \in DOMAIN run.roundCounts : \A r \in RoundSet :
            run'.roundCounts[id][r] =
              run.roundCounts[id][r] +
                (IF r = game.round /\ r = ROUNDS_IN_ORDER[roundIdx]
                    /\ id \in {game.team1Id, game.team2Id} THEN 1 ELSE 0)

\* C30: on the built 64-team bracket with the full roster, every run counts
\* each team at most once per round and counts exactly 64, 32, 16, 8, 4 and
\* 2 teams in the six rounds, so after N runs every count lies in [0, N].
C30_RoundReachCounts ==
  /\ [](pc \in {"loop", "games"} =>
          /\ \A i \in 1..Len(ROUNDS_IN_ORDER) :
               /\ CountedInRound(run.roundCounts, i) =
                    RunsThrough(i) * TeamsReaching(i) + 2 * GamesInto(i)
               /\ \A id \in DOMAIN run.roundCounts :
                    /\ run.roundCounts[id][ROUNDS_IN_ORDER[i]] >= 0
                    /\ run.roundCounts[id][ROUNDS_IN_ORDER[i]] <=
                         IF pc = "games" /\ i <= roundIdx THEN sim + 1 ELSE sim
          /\ pc = "games" => OneSlotPerRound(run.slots))
  /\ [](\A k \in 1..Len(returned) :
          \A id \in DOMAIN returned[k].result.roundCounts : \A r \in RoundSet :
            /\ returned[k].result.roundCounts[id][r] >= 0
            /\ returned[k].result.roundCounts[id][r] <= returned[k].result.totalSims)
  /\ [][CountsGameOnce]_vars

\* Two runs of one invocation are over, and a team has reached the
\* championship game in one of them only
C30_Witness ==
  /\ pc = "loop"
  /\ sim = 2
  /\ Len(teams) = 64
  /\ \E id \in DOMAIN run.roundCounts : run.roundCounts[id]["championship"] = 1


============================================================================
